---- MODULE Spec2Model ----
(***************************************************************************)
(* Sliding-puzzle solving engine of SeminarPuzzleGame:                     *)
(*   - PuzzleModel (puzzle_model.py): board, legal moves, solvability      *)
(*   - Puzzle / solve_puzzle_strategically (strategic_solver.py): the      *)
(*     layer-reduction ("human") solver                                    *)
(*   - AStarSolver.solve (astar_solver.py) and StrategicSolver.solve_bfs   *)
(*     (strategic_solver.py): best-first search on a binary heap           *)
(* Boards are matrices indexed from 0, as in the source.                   *)
(***************************************************************************)
EXTENDS Integers, Sequences, FiniteSets, TLC

VARIABLES
    size,            \* PuzzleModel.size / solver.size
    board,           \* PuzzleModel.board
    empty_pos,       \* PuzzleModel.empty_pos, <<row, col>>
    move_count,      \* PuzzleModel.move_count
    last_move_ok,    \* return value of the last PuzzleModel.move
    last_tile_pos,   \* argument of the last PuzzleModel.move
    initial_board,   \* solve(initial_board, initial_empty_pos)
    initial_empty_pos,
    puzzle,          \* the Puzzle object of solve_human
    pc,              \* position inside solve_puzzle_strategically
    row_iteration,   \* locals of solve_puzzle_strategically
    col_iteration,
    target_value,
    iterations,
    slide_vertically,
    result,          \* value returned by solve_human
    strategy,        \* "astar" (AStarSolver) or "bfs" (solve_bfs)
    nodes,           \* every PuzzleState created by the search
    open_set,        \* heapq list of indices into nodes
    closed_set,      \* boards already expanded
    best_g,          \* AStarSolver.solve: best g_cost per board
    nodes_expanded,
    spc,             \* position inside the search loop
    sresult,         \* value returned by the search
    calls,           \* number of solve calls made on the solver instance
    earlier,         \* the earlier calls on the instance: board and outcome
    undo_stack,      \* PuzzleCaretaker.undo_stack, the last memento on top
    redo_stack,      \* PuzzleCaretaker.redo_stack
    returned,        \* value returned by the last PuzzleCaretaker.undo / redo
    last_call,       \* the method of the caretaker or of its caller that ran last
    current_game_solvable,  \* HumanPlayerController
    game_finished,
    solved_records,  \* calls of StatsTracker.record_solved since new_game
    tpc,             \* position of the thread of _solve_puzzle_thread
    stop_solving,    \* ComputerPlayerController.stop_solving
    solution,        \* the list that _execute_solution goes through
    move_i,          \* moves of solution that the loop of line 244 has passed
    replaced,        \* handle_size_change replaced the board since the thread started
    join_size        \* 0, or the new size of the handle_size_change waiting in join

puzzleVars == <<size, board, empty_pos, move_count, last_move_ok, last_tile_pos>>
humanVars  == <<initial_board, initial_empty_pos, puzzle, pc, row_iteration,
                col_iteration, target_value, iterations, slide_vertically, result>>
searchVars == <<strategy, nodes, open_set, closed_set, best_g, nodes_expanded,
                spc, sresult>>
callVars == <<calls, earlier>>
careVars == <<undo_stack, redo_stack, returned, last_call>>
ctrlVars == <<current_game_solvable, game_finished, solved_records>>
threadVars == <<tpc, stop_solving, solution, move_i, replaced, join_size>>
gameVars == <<careVars, ctrlVars, threadVars>>
vars == <<puzzleVars, humanVars, searchVars, callVars, gameVars>>

----------------------------------------------------------------------------
(* Bounds of the model *)

\* number of cells (the blank's goal cell first, then row-major from the
\* top-left corner) whose contents are permuted to form the initial boards
MaxScrambled == 6
\* the searched 3x3 and 4x4 boards lie within this many slides of the goal
MaxDepth == 8

\* board sizes of the model
Sizes == {2, 3, 4}

\* sizes whose whole slide graph is explored (9!/2 boards per half for 3)
GraphSizes == {2, 3}

----------------------------------------------------------------------------
(* Boards *)

Idx(n) == 0 .. (n - 1)

Abs(x) == IF x < 0 THEN -x ELSE x

\* StrategicSolver._create_goal_board
create_goal_board(n) ==
    [i \in Idx(n) |-> [j \in Idx(n) |->
        IF i = n - 1 /\ j = n - 1 THEN 0 ELSE i * n + j + 1]]

\* the two-cell assignment of PuzzleModel.move / _get_neighbors:
\*   board[er][ec] = board[tr][tc]; board[tr][tc] = 0
SlideBoard(b, e, t) ==
    LET b1 == [b EXCEPT ![e[1]][e[2]] = b[t[1]][t[2]]]
    IN  [b1 EXCEPT ![t[1]][t[2]] = 0]

\* Puzzle._find_blank: first cell holding 0 in row-major order
\* (<<-1, -1>> stands for the ValueError)
find_blank_in(m, r, c) ==
    LET zs == {k \in 0 .. (r * c - 1) : m[k \div c][k % c] = 0}
    IN  IF zs = {} THEN <<-1, -1>>
        ELSE LET k == CHOOSE k \in zs : \A k2 \in zs : k <= k2
             IN  <<k \div c, k % c>>

find_blank(m, n) == find_blank_in(m, n, n)

\* the row-major reading of a board, 1-indexed
Flat(b, n) == [k \in 1 .. (n * n) |-> b[(k - 1) \div n][(k - 1) % n]]

----------------------------------------------------------------------------
(* PuzzleModel *)

\* PuzzleModel._count_inversions
count_inversions(b, n) ==
    LET f == Flat(b, n)
    IN  Cardinality({p \in (1 .. (n * n)) \X (1 .. (n * n)) :
            /\ p[1] < p[2]
            /\ f[p[1]] # 0
            /\ f[p[2]] # 0
            /\ f[p[1]] > f[p[2]]})

is_solvable_parity_slip(b, e, n) ==
    LET inversions == count_inversions(b, n)
    IN  IF n % 2 = 1
        THEN inversions % 2 = 0
        ELSE (inversions + (n - 1 - e[1])) % 2 = 1

\* PuzzleModel.is_solvable
\* a test on the inversions alone, whatever the size
inversions_even(b, e, n) == count_inversions(b, n) % 2 = 0

is_solvable(b, e, n) ==
    LET inversions == count_inversions(b, n)
    IN  IF n % 2 = 1
        THEN inversions % 2 = 0
        ELSE LET empty_row_from_bottom == n - e[1]
             IN  (inversions + empty_row_from_bottom) % 2 = 1

\* PuzzleModel.is_solved
is_solved(b, n) ==
    \A i \in Idx(n) : \A j \in Idx(n) :
        b[i][j] = IF i = n - 1 /\ j = n - 1 THEN 0 ELSE i * n + j + 1

directions == << <<-1, 0>>, <<1, 0>>, <<0, -1>>, <<0, 1>> >>

\* PuzzleModel.get_possible_moves, in the order of `directions'
\* a list of moves that also offers the cell below and to the right
get_possible_moves_with_diagonal(e, n) ==
    LET cand == [k \in 1 .. 5 |->
                    IF k = 5 THEN <<e[1] + 1, e[2] + 1>>
                    ELSE <<e[1] + directions[k][1], e[2] + directions[k][2]>>]
    IN  SelectSeq(cand, LAMBDA t : t[1] \in Idx(n) /\ t[2] \in Idx(n))

get_possible_moves(e, n) ==
    LET cand == [k \in 1 .. 4 |-> <<e[1] + directions[k][1], e[2] + directions[k][2]>>]
    IN  SelectSeq(cand, LAMBDA t : t[1] \in Idx(n) /\ t[2] \in Idx(n))

SeqToSet(s) == {s[k] : k \in DOMAIN s}

\* PuzzleModel.move(tile_pos) with the model holding <<b, e, c>>:
\* the new board, empty_pos, move_count and the returned flag
move(b, e, c, n, tile_pos) ==
    IF tile_pos \notin SeqToSet(get_possible_moves(e, n))
    THEN [board |-> b, empty_pos |-> e, move_count |-> c, ok |-> FALSE]
    ELSE [board |-> SlideBoard(b, e, tile_pos), empty_pos |-> tile_pos,
          move_count |-> c + 1, ok |-> TRUE]

\* replaying a move list through PuzzleModel.move on a model holding <<b, e>>:
\* ok becomes FALSE at the first move that move() rejects
RECURSIVE Replay(_, _, _, _)

ReplayNext(r, n, rest) ==
    IF ~r.ok THEN [board |-> r.board, empty_pos |-> r.empty_pos, ok |-> FALSE]
    ELSE Replay(r.board, r.empty_pos, n, rest)

Replay(b, e, n, moves) ==
    IF moves = <<>> THEN [board |-> b, empty_pos |-> e, ok |-> TRUE]
    ELSE ReplayNext(move(b, e, 0, n, Head(moves)), n, Tail(moves))

----------------------------------------------------------------------------
(* The Puzzle object of strategic_solver.py *)

\* Puzzle.__init__ lines 69-70: len(board) and len(board[0])
len_rows(b) == Cardinality(DOMAIN b)
len_cols(b) == Cardinality(DOMAIN b[0])

\* Puzzle.__init__; own_matrix: self.matrix is a deepcopy of the board passed
\* in (line 68), so writes to it are not writes to the caller's list
Puzzle(b, r, c) ==
    LET bl == find_blank_in(b, r, c)
    IN  [matrix |-> b, own_matrix |-> TRUE, rows |-> r, cols |-> c,
         blank_row |-> bl[1], blank_col |-> bl[2],
         top_row_progress |-> 0, left_col_progress |-> 0,
         bot_row_progress |-> r - 1, right_col_progress |-> c - 1,
         row_in_progress |-> 0, col_in_progress |-> 0,
         row_progress_col |-> 0, col_progress_row |-> 0,
         solving_row_top_down |-> TRUE, solving_col_left_right |-> TRUE,
         solving_row |-> TRUE,
         coord_moves |-> <<>>,
         \* "none", or how the call stopped making progress:
         \* "hang" (a loop that repeats a state), "IndexError"
         fault |-> "none"]

can_slide_up(p)    == p.blank_row > p.top_row_progress
can_slide_down(p)  == p.blank_row < p.bot_row_progress
can_slide_left(p)  == p.blank_col > p.left_col_progress
can_slide_right(p) == p.blank_col < p.right_col_progress

\* a swap that writes one of the two cells only
swap_one_way(m, r1, c1, r2, c2) ==
    [i \in DOMAIN m |-> [j \in DOMAIN m[i] |->
        IF i = r1 /\ j = c1 THEN m[r2][c2] ELSE m[i][j]]]

\* Puzzle._swap
swap(m, r1, c1, r2, c2) ==
    [i \in DOMAIN m |-> [j \in DOMAIN m[i] |->
        IF i = r1 /\ j = c1 THEN m[r2][c2]
        ELSE IF i = r2 /\ j = c2 THEN m[r1][c1]
        ELSE m[i][j]]]

\* a slide that records the cell the blank leaves instead of the tile's
SlideTo_blank_cell(p, r, c) ==
    [p EXCEPT !.coord_moves = Append(@, <<p.blank_row, p.blank_col>>),
              !.matrix = swap(@, p.blank_row, p.blank_col, r, c),
              !.blank_row = r,
              !.blank_col = c]

\* the body shared by the four slides: record the tile's cell, swap, move the blank
SlideTo(p, r, c) ==
    [p EXCEPT !.coord_moves = Append(@, <<r, c>>),
              !.matrix = swap(@, p.blank_row, p.blank_col, r, c),
              !.blank_row = r,
              !.blank_col = c]

\* a slide_up that records a move although the blank is in the top row
slide_up_at_edge(p) ==
    IF p.blank_row > 0 THEN SlideTo(p, p.blank_row - 1, p.blank_col)
    ELSE [p EXCEPT !.coord_moves = Append(@, <<p.blank_row, p.blank_col>>)]

slide_up(p) ==
    IF p.blank_row > 0 THEN SlideTo(p, p.blank_row - 1, p.blank_col) ELSE p

slide_down(p) ==
    IF p.blank_row < p.rows - 1 THEN SlideTo(p, p.blank_row + 1, p.blank_col) ELSE p

slide_left(p) ==
    IF p.blank_col > 0 THEN SlideTo(p, p.blank_row, p.blank_col - 1) ELSE p

slide_right(p) ==
    IF p.blank_col < p.cols - 1 THEN SlideTo(p, p.blank_row, p.blank_col + 1) ELSE p

\* an equality that never holds
is_never_equal(g, p) == FALSE

\* an equality that looks at the first row alone
is_equal_in_first_row(g, p) == g.matrix[0] = p.matrix[0]

is_equal_to_puzzle(g, p) == g.matrix = p.matrix

\* Puzzle.get_matrix_mapping(matrix)[value]: the last cell in row-major order
\* holding the value (row -1 stands for the KeyError of a missing value)
mapping(m, value) ==
    LET nc == Cardinality(DOMAIN m[0])
        ks == {k \in 0 .. (Cardinality(DOMAIN m) * nc - 1) : m[k \div nc][k % nc] = value}
    IN  IF ks = {} THEN [row |-> -1, col |-> -1]
        ELSE LET k == CHOOSE k \in ks : \A k2 \in ks : k >= k2
             IN  [row |-> k \div nc, col |-> k % nc]

is_row_equal(g, p, row) == g.matrix[row] = p.matrix[row]

is_col_equal(g, p, col) ==
    \A row \in 0 .. (p.rows - 1) : g.matrix[row][col] = p.matrix[row][col]

\* a row guard that still holds with two unsolved rows
more_than_one_unsolved_row(p) == p.bot_row_progress + 1 - p.top_row_progress > 1

more_than_two_unsolved_rows(p) == p.bot_row_progress + 1 - p.top_row_progress > 2

more_than_two_unsolved_cols(p) == p.right_col_progress + 1 - p.left_col_progress > 2

more_unsolved_rows_than_cols(p) ==
    p.bot_row_progress - p.top_row_progress + 1 >=
        p.right_col_progress + 1 - p.left_col_progress

\* a column guard that also lets a column go when the region is square
more_unsolved_cols_than_rows_or_equal(p) ==
    (p.right_col_progress + 1 - p.left_col_progress >=
     p.bot_row_progress + 1 - p.top_row_progress)

more_unsolved_cols_than_rows(p) ==
    p.right_col_progress + 1 - p.left_col_progress >
        p.bot_row_progress + 1 - p.top_row_progress

col_finished_and_not_in_goal_col(g, p) ==
    is_col_equal(g, p, p.col_in_progress) /\ p.col_in_progress # g.blank_col

row_finished_and_not_in_goal_row(g, p) ==
    is_row_equal(g, p, p.row_in_progress) /\ p.row_in_progress # g.blank_row

unsolved_puzzle_is_two_by_two(p) ==
    /\ p.bot_row_progress + 1 - p.top_row_progress = 2
    /\ p.right_col_progress + 1 - p.left_col_progress = 2

\* The while loops of move_blank_to_col / move_blank_to_row call a slide that
\* changes nothing when the blank is on the board's edge; the loop then
\* repeats the same state for ever (fault "hang").
RECURSIVE move_blank_to_col(_, _)
move_blank_to_col(p, target_col) ==
    IF p.fault # "none" \/ p.blank_col = target_col THEN p
    ELSE LET q == IF p.blank_col < target_col THEN slide_right(p) ELSE slide_left(p)
         IN  IF q = p THEN [p EXCEPT !.fault = "hang"]
             ELSE move_blank_to_col(q, target_col)

RECURSIVE move_blank_to_row(_, _)
move_blank_to_row(p, target_row) ==
    IF p.fault # "none" \/ p.blank_row = target_row THEN p
    ELSE LET q == IF p.blank_row < target_row THEN slide_down(p) ELSE slide_up(p)
         IN  IF q = p THEN [p EXCEPT !.fault = "hang"]
             ELSE move_blank_to_row(q, target_row)

move_blank_left_or_right(p) ==
    IF p.blank_col = p.right_col_progress THEN slide_left(p)
    ELSE IF p.blank_col = p.left_col_progress THEN slide_right(p)
    ELSE IF p.solving_col_left_right THEN slide_right(p)
    ELSE slide_left(p)

\* a detour that goes up whatever rows are solved
move_blank_up(p) == slide_up(p)

move_blank_up_or_down(p) ==
    IF p.blank_row = p.top_row_progress THEN slide_down(p)
    ELSE IF p.blank_row = p.bot_row_progress THEN slide_up(p)
    ELSE IF p.solving_row_top_down THEN slide_down(p)
    ELSE slide_up(p)

\* no loop of the call has hung and no exception has been raised
Running(p) == p.fault = "none"

\* op applied to a puzzle that is still running (a faulted call never gets there)
AndThen(p, op(_)) == IF Running(p) THEN op(p) ELSE p

\* move_tile_left, lines 263-264
move_tile_left_same_row(p, tile) ==
    IF Running(p) /\ p.blank_col > tile.col /\ tile.row = p.blank_row
    THEN move_blank_up_or_down(p) ELSE p

\* move_tile_left, lines 267-279
move_tile_left_goal_col(p, tile) ==
    IF Running(p) /\ ~p.solving_row /\ p.solving_col_left_right
       /\ tile.col = p.col_in_progress + 1
    THEN IF tile.row # p.bot_row_progress
         THEN IF p.blank_col >= tile.col /\ p.blank_row < tile.row
              THEN move_blank_to_row(move_blank_to_col(p, tile.col + 1), tile.row + 1)
              ELSE p
         ELSE move_blank_to_col(move_blank_to_row(p, tile.row - 1), tile.col)
    ELSE p

\* move_tile_left, lines 282-284
move_tile_left_slide(p, tile) ==
    AndThen(move_blank_to_row(move_blank_to_col(p, tile.col - 1), tile.row),
            slide_right)

move_tile_left(p, tile) ==
    move_tile_left_slide(
        move_tile_left_goal_col(move_tile_left_same_row(p, tile), tile), tile)

\* move_tile_right, lines 290-291
move_tile_right_same_row(p, tile) ==
    IF Running(p) /\ p.blank_col < tile.col /\ tile.row = p.blank_row
    THEN move_blank_up_or_down(p) ELSE p

\* move_tile_right, lines 293-321
move_tile_right_clear(p, tile) ==
    IF ~Running(p) THEN p
    ELSE IF p.solving_row
    THEN IF p.solving_row_top_down
         THEN IF /\ p.blank_row = p.row_in_progress
                 /\ (p.blank_row + 1 # tile.row \/ p.blank_col # tile.col)
                 /\ can_slide_down(p)
              THEN slide_down(p) ELSE p
         ELSE IF /\ p.blank_row = p.row_in_progress
                 /\ (p.blank_row - 1 # tile.row \/ p.blank_col # tile.col)
                 /\ can_slide_up(p)
              THEN slide_up(p) ELSE p
    ELSE IF ~p.solving_col_left_right /\ tile.col = p.col_in_progress - 1
         THEN IF tile.row # p.bot_row_progress
              THEN IF p.blank_col <= tile.col /\ p.blank_row < tile.row
                   THEN move_blank_to_row(
                            move_blank_to_col(p, tile.col - 1), tile.row + 1)
                   ELSE p
              ELSE move_blank_to_col(move_blank_to_row(p, tile.row - 1), tile.col)
         ELSE p

\* move_tile_right, lines 324-326
move_tile_right_slide(p, tile) ==
    AndThen(move_blank_to_row(move_blank_to_col(p, tile.col + 1), tile.row),
            slide_left)

move_tile_right(p, tile) ==
    move_tile_right_slide(
        move_tile_right_clear(move_tile_right_same_row(p, tile), tile), tile)

\* move_tile_up, lines 332-344
move_tile_up_goal_row(p, tile) ==
    IF Running(p) /\ p.solving_row /\ p.solving_row_top_down
       /\ tile.row = p.row_in_progress + 1
    THEN IF tile.col # p.right_col_progress
         THEN IF p.blank_col <= tile.col /\ p.blank_row >= tile.row
              THEN move_blank_to_col(move_blank_to_row(p, tile.row + 1), tile.col + 1)
              ELSE p
         ELSE move_blank_to_row(move_blank_to_col(p, tile.col - 1), tile.row)
    ELSE p

\* move_tile_up, lines 347-348
move_tile_up_same_col(p, tile) ==
    IF Running(p) /\ p.blank_row > tile.row /\ p.blank_col = tile.col
    THEN move_blank_left_or_right(p) ELSE p

\* move_tile_up, lines 351-353
move_tile_up_slide(p, tile) ==
    AndThen(move_blank_to_col(move_blank_to_row(p, tile.row - 1), tile.col),
            slide_down)

move_tile_up(p, tile) ==
    move_tile_up_slide(
        move_tile_up_same_col(move_tile_up_goal_row(p, tile), tile), tile)

\* move_tile_down, lines 359-371
move_tile_down_clear(p, tile) ==
    IF Running(p) /\ ~p.solving_row
    THEN IF p.solving_col_left_right
         THEN IF /\ p.blank_col = p.col_in_progress
                 /\ (p.blank_col + 1 # tile.col \/ p.blank_row # tile.row)
                 /\ can_slide_right(p)
              THEN slide_right(p) ELSE p
         ELSE IF /\ p.blank_col = p.col_in_progress
                 /\ (p.blank_col - 1 # tile.col \/ p.blank_row # tile.row)
                 /\ can_slide_left(p)
              THEN slide_left(p) ELSE p
    ELSE p

\* move_tile_down, lines 373-385
move_tile_down_goal_row(p, tile) ==
    IF Running(p) /\ p.solving_row /\ ~p.solving_row_top_down
       /\ tile.row = p.row_in_progress - 1
    THEN IF tile.col # p.right_col_progress
         THEN IF p.blank_col <= tile.col /\ p.blank_row <= tile.row
              THEN move_blank_to_col(move_blank_to_row(p, tile.row - 1), tile.col + 1)
              ELSE p
         ELSE move_blank_to_row(move_blank_to_col(p, tile.col - 1), tile.row)
    ELSE p

\* move_tile_down, lines 388-389
move_tile_down_same_col(p, tile) ==
    IF Running(p) /\ p.blank_row < tile.row /\ p.blank_col = tile.col
    THEN move_blank_left_or_right(p) ELSE p

\* move_tile_down, lines 392-394
move_tile_down_slide(p, tile) ==
    AndThen(move_blank_to_col(move_blank_to_row(p, tile.row + 1), tile.col),
            slide_up)

move_tile_down(p, tile) ==
    move_tile_down_slide(
        move_tile_down_same_col(
            move_tile_down_goal_row(move_tile_down_clear(p, tile), tile), tile), tile)

\* The four while loops of move_tile work on the puzzle and on the dict `tile',
\* whose row/col the loop updates itself: pt is <<puzzle, tile>>.
RECURSIVE while_left(_, _)
while_left(pt, goal_col) ==
    IF Running(pt[1]) /\ pt[2].col > goal_col
    THEN while_left(<<move_tile_left(pt[1], pt[2]),
                      [pt[2] EXCEPT !.col = @ - 1]>>, goal_col)
    ELSE pt

RECURSIVE while_right(_, _)
while_right(pt, goal_col) ==
    IF Running(pt[1]) /\ pt[2].col < goal_col
    THEN while_right(<<move_tile_right(pt[1], pt[2]),
                       [pt[2] EXCEPT !.col = @ + 1]>>, goal_col)
    ELSE pt

RECURSIVE while_up(_, _)
while_up(pt, goal_row) ==
    IF Running(pt[1]) /\ pt[2].row > goal_row
    THEN while_up(<<move_tile_up(pt[1], pt[2]),
                    [pt[2] EXCEPT !.row = @ - 1]>>, goal_row)
    ELSE pt

RECURSIVE while_down(_, _)
while_down(pt, goal_row) ==
    IF Running(pt[1]) /\ pt[2].row < goal_row
    THEN while_down(<<move_tile_down(pt[1], pt[2]),
                      [pt[2] EXCEPT !.row = @ + 1]>>, goal_row)
    ELSE pt

\* move_tile lines 411-459, the tile standing at v
move_tile_from(p, v, goal_row, goal_col) ==
    IF v.row = -1 THEN [p EXCEPT !.fault = "KeyError"]
    ELSE IF v.row = goal_row /\ v.col = goal_col THEN p
    ELSE IF p.solving_row
    THEN while_down(while_up(while_right(while_left(<<p, v>>,
             goal_col), goal_col), goal_row), goal_row)[1]
    ELSE while_right(while_left(while_down(while_up(<<p, v>>,
             goal_row), goal_row), goal_col), goal_col)[1]

move_tile(p, value, goal_row, goal_col) ==
    IF ~Running(p) THEN p
    ELSE move_tile_from(p, mapping(p.matrix, value), goal_row, goal_col)

\* a Python list index: negative indices count from the end, -1 here stands
\* for the IndexError of an index outside the list
PyIndex(i, len) ==
    IF i >= len \/ i < -len THEN -1 ELSE IF i < 0 THEN i + len ELSE i

\* goal_matrix[i][j] (-1 stands for the IndexError)
goal_cell(g, r, c) == IF r = -1 \/ c = -1 THEN -1 ELSE g.matrix[r][c]

goal_at(g, i, j) == goal_cell(g, PyIndex(i, g.rows), PyIndex(j, g.cols))

\* goal_puzzle of solve_human
goal_puzzle(n) == Puzzle(create_goal_board(n), n, n)

IndexError(p) == [p EXCEPT !.fault = "IndexError"]

\* lines 545-561 (top-down) and 564-576 (bottom-up): lm is goal_mapping[last_value]
row_maneuver(p, target, last_value, lm) ==
    IF p.solving_row_top_down
    THEN AndThen(AndThen(
             move_blank_to_row(move_blank_to_col(
                 move_tile(move_tile(move_tile(p,
                     last_value, lm.row + 2, lm.col),
                     target, lm.row, lm.col),
                     last_value, lm.row + 1, lm.col),
                 lm.col - 1), lm.row),
             slide_right), slide_down)
    ELSE AndThen(AndThen(
             move_blank_to_row(move_blank_to_col(
                 move_tile(move_tile(move_tile(p,
                     last_value, lm.row - 2, lm.col),
                     target, lm.row, lm.col),
                     last_value, lm.row - 1, lm.col),
                 lm.col - 1), lm.row),
             slide_right), slide_up)

\* lines 541-576: the last two values of the row in progress
row_last_two_of(p, g, target, last_value) ==
    IF last_value = -1 THEN IndexError(p)
    ELSE row_maneuver(p, target, last_value, mapping(g.matrix, last_value))

row_last_two(p, g, target) ==
    row_last_two_of(p, g, target,
                    goal_at(g, p.row_in_progress, p.right_col_progress))

\* lines 628-644 (left to right) and 647-659 (right to left)
col_maneuver(p, target, last_value, lm) ==
    IF p.solving_col_left_right
    THEN AndThen(AndThen(
             move_blank_to_col(move_blank_to_row(
                 move_tile(move_tile(move_tile(p,
                     last_value, lm.row, lm.col + 2),
                     target, lm.row, lm.col),
                     last_value, lm.row, lm.col + 1),
                 lm.row - 1), lm.col),
             slide_down), slide_right)
    ELSE AndThen(AndThen(
             move_blank_to_col(move_blank_to_row(
                 move_tile(move_tile(move_tile(p,
                     last_value, lm.row, lm.col - 2),
                     target, lm.row, lm.col),
                     last_value, lm.row, lm.col - 1),
                 lm.row - 1), lm.col),
             slide_down), slide_left)

\* lines 624-659: the last two values of the column in progress
col_last_two_of(p, g, target, last_value) ==
    IF last_value = -1 THEN IndexError(p)
    ELSE col_maneuver(p, target, last_value, mapping(g.matrix, last_value))

col_last_two(p, g, target) ==
    col_last_two_of(p, g, target,
                    goal_at(g, p.bot_row_progress, p.col_in_progress))

\* lines 672-683: one slide of the 2x2 rotation
\* a rotation whose slides are all vertical
rotate_slide_vertical_only(p, g, vertical) ==
    IF can_slide_down(p) THEN slide_down(p) ELSE slide_up(p)

rotate_slide(p, g, vertical) ==
    IF vertical
    THEN IF can_slide_down(p) /\ p.blank_row - 1 <= g.blank_row - 1
         THEN slide_down(p) ELSE slide_up(p)
    ELSE IF can_slide_right(p) /\ p.blank_col + 1 <= g.blank_col + 1
         THEN slide_right(p) ELSE slide_left(p)

----------------------------------------------------------------------------
(* Values returned by the solvers *)

Pending      == [kind |-> "pending", moves |-> <<>>, cause |-> "none"]
ReturnList(m) == [kind |-> "list", moves |-> m, cause |-> "none"]
ReturnNone(c) == [kind |-> "None", moves |-> <<>>, cause |-> c]
Raise(c)     == [kind |-> "raise", moves |-> <<>>, cause |-> c]

----------------------------------------------------------------------------
(* Inputs *)

Min(a, b) == IF a < b THEN a ELSE b

\* the cells whose contents are permuted: the blank's goal cell, then the
\* cells in row-major order from the top-left corner
ScrambledCells(n) ==
    {IF k = 1 THEN <<n - 1, n - 1>> ELSE <<(k - 2) \div n, (k - 2) % n>> :
        k \in 1 .. Min(MaxScrambled, n * n)}

\* well-formed boards: every arrangement of the goal's values over the
\* scrambled cells, the other cells as in the goal (half of them unsolvable)
InitialBoards(n) ==
    LET g == create_goal_board(n)
        vals == {g[rc[1]][rc[2]] : rc \in ScrambledCells(n)}
    IN  {[i \in Idx(n) |-> [j \in Idx(n) |->
            IF g[i][j] \in vals THEN pi[g[i][j]] ELSE g[i][j]]] :
                pi \in Permutations(vals)}

NoPlay ==
    /\ board = <<>>
    /\ empty_pos = <<0, 0>>
    /\ move_count = 0
    /\ last_move_ok = TRUE
    /\ last_tile_pos = <<0, 0>>

NoHuman ==
    /\ puzzle = <<>>
    /\ pc = "idle"
    /\ row_iteration = 0
    /\ col_iteration = 0
    /\ target_value = 0
    /\ iterations = 0
    /\ slide_vertically = TRUE
    /\ result = Pending

\* the None that PuzzleCaretaker.undo / redo return when there is no state
NoState == [kind |-> "None", board |-> <<>>, empty_pos |-> <<0, 0>>, move_count |-> 0]

\* no caretaker, no controller and no solving thread
NoGame ==
    /\ undo_stack = <<>>
    /\ redo_stack = <<>>
    /\ returned = NoState
    /\ last_call = "none"
    /\ current_game_solvable = TRUE
    /\ game_finished = FALSE
    /\ solved_records = 0
    /\ tpc = "none"
    /\ stop_solving = FALSE
    /\ solution = <<>>
    /\ move_i = 0
    /\ replaced = FALSE
    /\ join_size = 0

\* a solver instance on which solve has not been called before
FirstCall ==
    /\ calls = 1
    /\ earlier = <<>>

NoSearch ==
    /\ strategy = "none"
    /\ nodes = <<>>
    /\ open_set = <<>>
    /\ closed_set = {}
    /\ best_g = <<>>
    /\ nodes_expanded = 0
    /\ spc = "idle"
    /\ sresult = Pending

----------------------------------------------------------------------------
(* StrategicSolver.solve_human / solve_puzzle_strategically *)

HumanInit ==
    /\ size \in Sizes
    /\ initial_board \in InitialBoards(size)
    /\ initial_empty_pos = find_blank(initial_board, size)
    /\ puzzle = <<>>
    /\ pc = "call"
    /\ row_iteration = 0
    /\ col_iteration = 0
    /\ target_value = 0
    /\ iterations = 0
    /\ slide_vertically = TRUE
    /\ result = Pending
    /\ NoPlay
    /\ NoSearch
    /\ FirstCall
    /\ NoGame

\* The state of the call after one step of solve_puzzle_strategically: the
\* puzzle, the locals the step assigns, the next position and the value
\* returned so far.
Step(p, t, it, next_pc, res) ==
    [puzzle |-> p, target_value |-> t, iteration |-> it, pc |-> next_pc, result |-> res]

\* the position after a step that left the puzzle as p: a hung loop never
\* returns, an exception ends the call
StepPc(p, next_pc) ==
    IF p.fault = "none" THEN next_pc
    ELSE IF p.fault = "hang" THEN "hung" ELSE "done"

StepResult(p, res) ==
    IF p.fault \in {"none", "hang"} THEN res ELSE Raise(p.fault)

\* target_value = goal_matrix[i][j] after a step that left the puzzle as p
NextTarget(p, g, i, j, t_old, it_old, it_new, next_pc, res) ==
    IF ~Running(p) THEN Step(p, t_old, it_old, next_pc, res)
    ELSE IF goal_at(g, i, j) = -1 THEN Step(IndexError(p), t_old, it_old, next_pc, res)
    ELSE Step(p, goal_at(g, i, j), it_new, next_pc, res)

\* move_tile(puzzle, value, goal_mapping[value]['row'], goal_mapping[value]['col'])
move_tile_to(p, value, gm) == move_tile(p, value, gm.row, gm.col)

move_tile_to_goal(p, g, value) == move_tile_to(p, value, mapping(g.matrix, value))

\* lines 504-512
row_advance(p) ==
    IF p.solving_row_top_down
    THEN [p EXCEPT !.top_row_progress = @ + 1,
                   !.row_in_progress = p.top_row_progress + 1,
                   !.row_progress_col = 0]
    ELSE [p EXCEPT !.bot_row_progress = @ - 1,
                   !.row_in_progress = p.bot_row_progress - 1,
                   !.row_progress_col = 0]

\* lines 514-522
\* a direction rule that turns the sweep two rows above the goal's blank row
row_direction_turning_early(p, g) ==
    IF p.solving_row_top_down
    THEN IF p.row_in_progress + 2 = g.blank_row
         THEN [p EXCEPT !.solving_row_top_down = FALSE,
                        !.row_in_progress = p.bot_row_progress]
         ELSE [p EXCEPT !.row_in_progress = p.top_row_progress]
    ELSE [p EXCEPT !.row_in_progress = p.bot_row_progress]

row_direction(p, g) ==
    IF p.solving_row_top_down
    THEN IF p.row_in_progress = g.blank_row
         THEN [p EXCEPT !.solving_row_top_down = FALSE,
                        !.row_in_progress = p.bot_row_progress]
         ELSE [p EXCEPT !.row_in_progress = p.top_row_progress]
    ELSE [p EXCEPT !.row_in_progress = p.bot_row_progress]

\* lines 524-525
row_begin(p, g, t, it, res) ==
    NextTarget(p, g, p.row_in_progress, p.row_progress_col, t, it, 0, "row_inner", res)

\* lines 500-525, the puzzle with solving_row already set
row_loop_body(p, g, t, it, res) ==
    IF row_finished_and_not_in_goal_row(g, p)
    THEN Step(row_advance(p), t, it, "row_loop", res)
    ELSE row_begin(row_direction(p, g), g, t, it, res)

\* lines 499-525
row_loop_step(p, g, t, it, res) ==
    IF more_than_two_unsolved_rows(p) /\ more_unsolved_rows_than_cols(p)
    THEN row_loop_body([p EXCEPT !.solving_row = TRUE], g, t, it, res)
    ELSE Step(p, t, it, "col_loop", res)

\* lines 537-538 and 579-581: the next target after the puzzle became p
row_next_target(p, g, t, it_old, it_new, res) ==
    NextTarget(p, g, p.row_in_progress, p.row_progress_col, t, it_old, it_new,
               "row_inner", res)

row_progress_next(p) == [p EXCEPT !.row_progress_col = @ + 1]
row_progress_reset(p) == [p EXCEPT !.row_progress_col = 0]

\* lines 533-581, second_last being
\* goal_matrix[row_in_progress][right_col_progress - 1]
row_inner_body(p, g, t, it, res, second_last) ==
    IF second_last = -1 THEN Step(IndexError(p), t, it, "row_inner", res)
    ELSE IF t # second_last
    THEN row_next_target(AndThen(move_tile_to_goal(p, g, t), row_progress_next),
                         g, t, it, it, res)
    ELSE row_next_target(AndThen(row_last_two(p, g, t), row_progress_reset),
                         g, t, it, it + 1, res)

\* line 529: the retry guard of the row in progress
\* a guard that allows the maneuver a third run
row_guard_two_retries(it) == it > 2

\* a guard that allows the maneuver one run only
row_guard_no_retry(it) == it > 0

row_guard(it) == it > 1

\* lines 527-581
row_inner_step(p, g, t, it, res) ==
    IF is_row_equal(g, p, p.row_in_progress) THEN Step(p, t, it, "row_loop", res)
    ELSE IF row_guard(it) THEN Step(p, t, it, "done", ReturnNone("row_guard"))
    ELSE row_inner_body(p, g, t, it, res,
                        goal_at(g, p.row_in_progress, p.right_col_progress - 1))

\* lines 588-595
\* an advance that takes the column off the right of the region
col_advance_from_right(p) ==
    [p EXCEPT !.right_col_progress = @ - 1,
              !.col_in_progress = p.right_col_progress - 1,
              !.col_progress_row = 0]

col_advance(p) ==
    IF p.solving_col_left_right
    THEN [p EXCEPT !.col_progress_row = 0,
                   !.left_col_progress = @ + 1,
                   !.col_in_progress = p.left_col_progress + 1]
    ELSE [p EXCEPT !.col_progress_row = 0,
                   !.right_col_progress = @ - 1,
                   !.col_in_progress = p.right_col_progress - 1]

\* lines 597-605
col_direction(p, g) ==
    IF p.solving_col_left_right
    THEN IF p.col_in_progress = g.blank_col
         THEN [p EXCEPT !.solving_col_left_right = FALSE,
                        !.col_in_progress = p.right_col_progress]
         ELSE [p EXCEPT !.col_in_progress = p.left_col_progress]
    ELSE [p EXCEPT !.col_in_progress = p.right_col_progress]

\* lines 607-608
col_begin(p, g, t, it, res) ==
    NextTarget(p, g, p.top_row_progress, p.col_in_progress, t, it, 0, "col_inner", res)

\* lines 585-608, the puzzle with solving_row already cleared
col_loop_body(p, g, t, it, res) ==
    IF col_finished_and_not_in_goal_col(g, p)
    THEN Step(col_advance(p), t, it, "col_loop", res)
    ELSE col_begin(col_direction(p, g), g, t, it, res)

\* lines 584-608
col_loop_step(p, g, t, it, res) ==
    IF more_than_two_unsolved_cols(p) /\ more_unsolved_cols_than_rows(p)
    THEN col_loop_body([p EXCEPT !.solving_row = FALSE], g, t, it, res)
    ELSE Step(p, t, it, "two_by_two", res)

\* lines 620-621 and 662-664
col_next_target(p, g, t, it_old, it_new, res) ==
    NextTarget(p, g, p.col_progress_row, p.col_in_progress, t, it_old, it_new,
               "col_inner", res)

col_progress_next(p) == [p EXCEPT !.col_progress_row = @ + 1]
col_progress_reset(p) == [p EXCEPT !.col_progress_row = 0]

\* lines 616-664, second_last being
\* goal_matrix[bot_row_progress - 1][col_in_progress]
col_inner_body(p, g, t, it, res, second_last) ==
    IF second_last = -1 THEN Step(IndexError(p), t, it, "col_inner", res)
    ELSE IF t # second_last
    THEN col_next_target(AndThen(move_tile_to_goal(p, g, t), col_progress_next),
                         g, t, it, it, res)
    ELSE col_next_target(AndThen(col_last_two(p, g, t), col_progress_reset),
                         g, t, it, it + 1, res)

\* line 612: the retry guard of the column in progress
col_guard(it) == it > 1

\* lines 610-664
col_inner_step(p, g, t, it, res) ==
    IF is_col_equal(g, p, p.col_in_progress) THEN Step(p, t, it, "col_loop", res)
    ELSE IF col_guard(it) THEN Step(p, t, it, "done", ReturnNone("col_guard"))
    ELSE col_inner_body(p, g, t, it, res,
                        goal_at(g, p.bot_row_progress - 1, p.col_in_progress))

\* a ceiling of 2 rotations
\* a ceiling that stops the phase after ten slides
rotate_ceiling_ten(it) == it > 10

\* a ceiling that lets a 22nd pass run
rotate_ceiling_high(it) == it > 21

rotate_ceiling_low(it) == it > 2

\* line 686: the ceiling of the 2x2 rotation
rotate_ceiling(it) == it > 20

\* lines 671-687
rotate_step(p, g, vertical, it, res) ==
    IF is_equal_to_puzzle(g, p) THEN Step(p, vertical, it, "outer", res)
    ELSE IF rotate_ceiling(it + 1)
    THEN Step(rotate_slide(p, g, vertical), ~vertical, it + 1, "done",
              ReturnNone("ceiling"))
    ELSE Step(rotate_slide(p, g, vertical), ~vertical, it + 1, "rotate", res)

\* solve_human lines 719-726 and solve_puzzle_strategically lines 467-493
solve_start(p, g, res) ==
    IF p.blank_row = -1
    THEN Step([p EXCEPT !.fault = "ValueError"], 0, 0, "done", res)
    ELSE IF is_equal_to_puzzle(g, p)
    THEN Step(p, 0, 0, "done", ReturnList(<<>>))
    ELSE Step([p EXCEPT !.top_row_progress = 0,
                        !.left_col_progress = 0,
                        !.bot_row_progress = p.rows - 1,
                        !.right_col_progress = p.cols - 1,
                        !.row_in_progress = 0,
                        !.col_in_progress = 0,
                        !.row_progress_col = 0,
                        !.col_progress_row = 0,
                        !.solving_row_top_down = TRUE,
                        !.solving_col_left_right = TRUE],
              0, 0, "outer", res)

----------------------------------------------------------------------------
(* Actions of the layer-reduction solve *)

\* a pass of a loop that leaves the position, the puzzle and the locals t and
\* it as they were: the loop repeats it forever
Repeats(s, t, it) ==
    /\ s.pc = pc
    /\ s.puzzle = puzzle
    /\ s.target_value = t
    /\ s.iteration = it

Commit(s, t, it) ==
    /\ puzzle' = s.puzzle
    /\ pc' = IF Repeats(s, t, it) THEN "hung" ELSE StepPc(s.puzzle, s.pc)
    /\ result' = StepResult(s.puzzle, s.result)

SolveHuman ==
    /\ pc = "call"
    /\ Commit(solve_start(Puzzle(initial_board, len_rows(initial_board),
                                  len_cols(initial_board)),
                           goal_puzzle(size), result),
              target_value, row_iteration)
    /\ UNCHANGED <<puzzleVars, callVars, gameVars, searchVars, initial_board, initial_empty_pos,
                   row_iteration, col_iteration, target_value, iterations,
                   slide_vertically>>

\* line 495, and lines 689-695 with solve_human lines 728-735 when the loop ends
OuterLoop ==
    /\ pc = "outer"
    /\ IF is_equal_to_puzzle(goal_puzzle(size), puzzle)
       THEN /\ pc' = "done"
            /\ result' = ReturnList(puzzle.coord_moves)
       ELSE /\ pc' = "row_loop"
            /\ result' = result
    /\ UNCHANGED <<puzzleVars, callVars, gameVars, searchVars, initial_board, initial_empty_pos, puzzle,
                   row_iteration, col_iteration, target_value, iterations,
                   slide_vertically>>

CommitRow(s) ==
    /\ Commit(s, target_value, row_iteration)
    /\ target_value' = s.target_value
    /\ row_iteration' = s.iteration

\* lines 499-525: one evaluation of the row loop's condition and, when it
\* holds, the body up to the inner loop
RowLoop ==
    /\ pc = "row_loop"
    /\ CommitRow(row_loop_step(puzzle, goal_puzzle(size), target_value,
                               row_iteration, result))
    /\ UNCHANGED <<puzzleVars, callVars, gameVars, searchVars, initial_board, initial_empty_pos,
                   col_iteration, iterations, slide_vertically>>

\* lines 527-581: one evaluation of the inner loop's condition and, when the
\* row is not yet equal to the goal's, one pass of its body
RowInner ==
    /\ pc = "row_inner"
    /\ CommitRow(row_inner_step(puzzle, goal_puzzle(size), target_value,
                                row_iteration, result))
    /\ UNCHANGED <<puzzleVars, callVars, gameVars, searchVars, initial_board, initial_empty_pos,
                   col_iteration, iterations, slide_vertically>>

CommitCol(s) ==
    /\ Commit(s, target_value, col_iteration)
    /\ target_value' = s.target_value
    /\ col_iteration' = s.iteration

\* lines 584-608
ColLoop ==
    /\ pc = "col_loop"
    /\ CommitCol(col_loop_step(puzzle, goal_puzzle(size), target_value,
                               col_iteration, result))
    /\ UNCHANGED <<puzzleVars, callVars, gameVars, searchVars, initial_board, initial_empty_pos,
                   row_iteration, iterations, slide_vertically>>

\* lines 610-664
ColInner ==
    /\ pc = "col_inner"
    /\ CommitCol(col_inner_step(puzzle, goal_puzzle(size), target_value,
                                col_iteration, result))
    /\ UNCHANGED <<puzzleVars, callVars, gameVars, searchVars, initial_board, initial_empty_pos,
                   row_iteration, iterations, slide_vertically>>

\* lines 667-669: after the column loop
TwoByTwo ==
    /\ pc = "two_by_two"
    /\ IF unsolved_puzzle_is_two_by_two(puzzle)
       THEN /\ iterations' = 0
            /\ slide_vertically' = TRUE
            /\ pc' = "rotate"
       ELSE /\ pc' = "outer"
            /\ UNCHANGED <<iterations, slide_vertically>>
    /\ UNCHANGED <<puzzleVars, callVars, gameVars, searchVars, initial_board, initial_empty_pos, puzzle,
                   row_iteration, col_iteration, target_value, result>>

CommitRotate(s) ==
    /\ Commit(s, slide_vertically, iterations)
    /\ slide_vertically' = s.target_value
    /\ iterations' = s.iteration

\* lines 671-687: one evaluation of the rotation loop's condition and, when
\* the board is not yet the goal, one pass of its body
Rotate ==
    /\ pc = "rotate"
    /\ CommitRotate(rotate_step(puzzle, goal_puzzle(size), slide_vertically,
                                iterations, result))
    /\ UNCHANGED <<puzzleVars, callVars, gameVars, searchVars, initial_board, initial_empty_pos,
                   row_iteration, col_iteration, target_value>>

HumanNext ==
    \/ SolveHuman
    \/ OuterLoop
    \/ RowLoop
    \/ RowInner
    \/ ColLoop
    \/ ColInner
    \/ TwoByTwo
    \/ Rotate

SpecHuman == HumanInit /\ [][HumanNext]_vars

----------------------------------------------------------------------------
(* The slide graph: boards, and the legal slides between them *)

\* the goal board with tiles 1 and 2 exchanged
SwappedGoal(n) ==
    [create_goal_board(n) EXCEPT ![0] = [@ EXCEPT ![0] = 2, ![1] = 1]]

\* The nodes of the graph are boards with their blank; the move counter of a
\* game is no part of a node.  Every board of size 2 or 3 is connected to the
\* goal board or to the goal board with two tiles exchanged.
GraphInit ==
    /\ size \in GraphSizes
    /\ board \in {create_goal_board(size), SwappedGoal(size)}
    /\ empty_pos = find_blank(board, size)
    /\ move_count = 0
    /\ last_move_ok = TRUE
    /\ last_tile_pos = <<0, 0>>
    /\ initial_board = board
    /\ initial_empty_pos = empty_pos
    /\ NoHuman
    /\ NoSearch
    /\ FirstCall
    /\ NoGame

\* one edge of the graph: a tile of get_possible_moves slides into the blank
Slide ==
    /\ \E tile_pos \in SeqToSet(get_possible_moves(empty_pos, size)) :
        /\ board' = SlideBoard(board, empty_pos, tile_pos)
        /\ empty_pos' = tile_pos
    /\ UNCHANGED <<size, move_count, last_move_ok, last_tile_pos, humanVars,
                   searchVars, callVars, gameVars>>

GraphNext == Slide

SpecGraph == GraphInit /\ [][GraphNext]_vars

\* C5: for N = 2 and N = 3, is_solvable is True on every board that legal
\* slides connect to the goal board, and False on every board they connect
\* to the goal board with two tiles exchanged (the boards from which the goal
\* cannot be reached).
OracleMatchesReachability ==
    is_solvable(board, empty_pos, size) <=> is_solved(initial_board, size)

\* witness of C5: a board far from the goal, reached from it by legal slides,
\* that the oracle reports solvable
OracleWitness ==
    /\ size = 3
    /\ is_solved(initial_board, size)
    /\ board[0][0] = 8
    /\ board[2][2] = 1
    /\ is_solvable(board, empty_pos, size)

\* C9: a legal slide never changes the value of is_solvable.
SolvabilityUnchangedBySlide ==
    [][is_solvable(board', empty_pos', size) = is_solvable(board, empty_pos, size)]_vars

\* witness of C9: a board of the even size reached by a vertical slide (the
\* inversion count and the blank row both changed parity)
SlideWitness ==
    /\ size = 2
    /\ empty_pos[1] = 0
    /\ board # initial_board
    /\ is_solvable(board, empty_pos, size)

----------------------------------------------------------------------------
(* Best-first search: AStarSolver.solve and StrategicSolver.solve_bfs *)

\* the sum taken over every cell, the blank's included
RECURSIVE manhattan_counting_blank(_, _, _)
manhattan_counting_blank(b, n, k) ==
    IF k >= n * n THEN 0
    ELSE Abs((k \div n) - ((b[k \div n][k % n] - 1) \div n))
         + Abs((k % n) - ((b[k \div n][k % n] - 1) % n))
         + manhattan_counting_blank(b, n, k + 1)

\* the sum of the row distances alone
RECURSIVE manhattan_rows_only(_, _, _)
manhattan_rows_only(b, n, k) ==
    IF k >= n * n THEN 0
    ELSE (IF b[k \div n][k % n] # 0
          THEN Abs((k \div n) - ((b[k \div n][k % n] - 1) \div n))
          ELSE 0)
         + manhattan_rows_only(b, n, k + 1)

\* manhattan_distance: the cells k .. n*n-1 in row-major order
RECURSIVE manhattan_from(_, _, _)
manhattan_from(b, n, k) ==
    IF k >= n * n THEN 0
    ELSE (IF b[k \div n][k % n] # 0
          THEN Abs((k \div n) - ((b[k \div n][k % n] - 1) \div n))
               + Abs((k % n) - ((b[k \div n][k % n] - 1) % n))
          ELSE 0)
         + manhattan_from(b, n, k + 1)

manhattan_distance(b, n) == manhattan_from(b, n, 0)

f_cost_greedy(strat, g, h) == h

\* the f_cost of the two PuzzleState classes exchanged
f_cost_exchanged(strat, g, h) == IF strat = "astar" THEN h ELSE g + h

\* PuzzleState.__init__: astar_solver.py line 56 (g + h),
\* strategic_solver.py line 30 (h alone)
f_cost(strat, g, h) == IF strat = "astar" THEN g + h ELSE h

\* parent is an index into nodes, 0 for None
PuzzleState(strat, b, e, g, h, parent, mv) ==
    [board |-> b, empty_pos |-> e, g_cost |-> g, h_cost |-> h,
     f_cost |-> f_cost(strat, g, h), parent |-> parent, move |-> mv]

\* PuzzleState.__lt__
lt(a, b) == a.f_cost < b.f_cost

\* heapq._siftdown(heap, startpos, pos) with newitem taken out of heap[pos];
\* heap holds indices into ns, heap[i] of the source is heap[i + 1] here
RECURSIVE siftdown(_, _, _, _, _)
siftdown(heap, ns, startpos, pos, newitem) ==
    IF pos > startpos /\ lt(ns[newitem], ns[heap[((pos - 1) \div 2) + 1]])
    THEN siftdown([heap EXCEPT ![pos + 1] = heap[((pos - 1) \div 2) + 1]],
                  ns, startpos, (pos - 1) \div 2, newitem)
    ELSE [heap EXCEPT ![pos + 1] = newitem]

\* a push that appends the item and leaves it at the end of the list
heappush_at_end(heap, ns, item) == Append(heap, item)

\* heapq.heappush(heap, item)
heappush(heap, ns, item) ==
    siftdown(Append(heap, item), ns, 0, Len(heap), item)

\* the child heapq._siftup moves up: the right one unless the left one is smaller
smaller_child(heap, ns, childpos) ==
    IF childpos + 1 < Len(heap) /\ ~lt(ns[heap[childpos + 1]], ns[heap[childpos + 2]])
    THEN childpos + 1 ELSE childpos

\* heapq._siftup(heap, pos): bubble the smaller child up until a leaf, then
\* sift newitem down from there
RECURSIVE siftup(_, _, _, _, _)

siftup_to(heap, ns, startpos, pos, newitem, childpos) ==
    siftup([heap EXCEPT ![pos + 1] = heap[childpos + 1]], ns, startpos, childpos, newitem)

siftup(heap, ns, startpos, pos, newitem) ==
    IF 2 * pos + 1 < Len(heap)
    THEN siftup_to(heap, ns, startpos, pos, newitem,
                   smaller_child(heap, ns, 2 * pos + 1))
    ELSE siftdown([heap EXCEPT ![pos + 1] = newitem], ns, startpos, pos, newitem)

\* heapq.heappop(heap): the heap that is left (the item returned is heap[0])
heappop_rest(heap, ns) ==
    IF Len(heap) = 1 THEN <<>>
    ELSE siftup(<<heap[Len(heap)]>> \o SubSeq(heap, 2, Len(heap) - 1),
                ns, 0, 0, heap[Len(heap)])

\* AStarSolver._is_goal / StrategicSolver._is_goal
is_goal(b, n) ==
    \A i \in Idx(n) : \A j \in Idx(n) :
        b[i][j] = IF i = n - 1 /\ j = n - 1 THEN 0 ELSE i * n + j + 1

\* _get_neighbors: the neighbor states of state ns[cur], in the order of
\* `directions'
neighbor(strat, st, cur, n, t) ==
    PuzzleState(strat, SlideBoard(st.board, st.empty_pos, t), t, st.g_cost + 1,
                manhattan_distance(SlideBoard(st.board, st.empty_pos, t), n), cur, t)

get_neighbors(strat, st, cur, n) ==
    [k \in 1 .. Len(get_possible_moves(st.empty_pos, n)) |->
        neighbor(strat, st, cur, n, get_possible_moves(st.empty_pos, n)[k])]

\* the moves along the parent links in the order they are met, goal first
RECURSIVE path_from_goal(_, _)
path_from_goal(ns, i) ==
    IF ns[i].parent = 0 THEN <<>>
    ELSE <<ns[i].move>> \o path_from_goal(ns, ns[i].parent)

\* _reconstruct_path: the moves along the parent links, root first
RECURSIVE reconstruct_path(_, _)
reconstruct_path(ns, i) ==
    IF ns[i].parent = 0 THEN <<>>
    ELSE Append(reconstruct_path(ns, ns[i].parent), ns[i].move)

\* the state of a search: the nodes created, the heap, the closed boards and
\* the best g_cost recorded per board
Search(ns, heap, closed, bg) ==
    [nodes |-> ns, open_set |-> heap, closed_set |-> closed, best_g |-> bg]

\* lines 183-184: record the neighbor's g_cost and push it
push_recorded(sr, nb) ==
    Search(Append(sr.nodes, nb),
           heappush(sr.open_set, Append(sr.nodes, nb), Len(sr.nodes) + 1),
           sr.closed_set,
           [b \in DOMAIN sr.best_g \cup {nb.board} |->
               IF b = nb.board THEN nb.g_cost ELSE sr.best_g[b]])

\* solve_bfs line 788: push the neighbor
push_plain(sr, nb) ==
    Search(Append(sr.nodes, nb),
           heappush(sr.open_set, Append(sr.nodes, nb), Len(sr.nodes) + 1),
           sr.closed_set, sr.best_g)

\* a test that also lets through a g_cost equal to the recorded one
better_or_equal_g(sr, nb) ==
    nb.board \notin DOMAIN sr.best_g \/ nb.g_cost <= sr.best_g[nb.board]

\* line 182
better_g(sr, nb) ==
    nb.board \notin DOMAIN sr.best_g \/ nb.g_cost < sr.best_g[nb.board]

\* AStarSolver.solve lines 178-184 / solve_bfs lines 787-788 for one neighbor
consider(strat, sr, nb) ==
    IF nb.board \in sr.closed_set THEN sr
    ELSE IF strat = "astar"
    THEN IF better_g(sr, nb) THEN push_recorded(sr, nb) ELSE sr
    ELSE push_plain(sr, nb)

\* the for loop over the neighbors, from the k-th on
RECURSIVE consider_all(_, _, _, _)
consider_all(strat, sr, nbs, k) ==
    IF k > Len(nbs) THEN sr
    ELSE consider_all(strat, consider(strat, sr, nbs[k]), nbs, k + 1)

\* the boards one legal slide away from a board of bs
SlideNeighbors(bs, n) ==
    UNION {{SlideBoard(b, find_blank(b, n), t) :
                t \in SeqToSet(get_possible_moves(find_blank(b, n), n))} : b \in bs}

\* breadth-first search over the slide graph from the goal board: layers[d + 1]
\* holds the boards whose shortest path of slides to the goal has d slides (a
\* slide is undone by the opposite slide, so distances to and from the goal
\* agree), for d up to MaxDepth
RECURSIVE DistanceLayers(_, _, _)

NextLayer(layers, seen, n, new) ==
    DistanceLayers(Append(layers, new), seen \cup new, n)

DistanceLayers(layers, seen, n) ==
    IF Len(layers) > MaxDepth THEN layers
    ELSE NextLayer(layers, seen, n, SlideNeighbors(layers[Len(layers)], n) \ seen)

GoalDistances ==
    [n \in Sizes |->
        DistanceLayers(<<{create_goal_board(n)}>>, {create_goal_board(n)}, n)]

\* the number of slides of a shortest path from b to the goal, -1 when it is
\* more than MaxDepth or there is none
ShortestDistance(b, n) ==
    IF \E d \in 0 .. MaxDepth : b \in GoalDistances[n][d + 1]
    THEN CHOOSE d \in 0 .. MaxDepth : b \in GoalDistances[n][d + 1]
    ELSE -1

\* the boards handed to the search: every 2x2 board, and the larger boards
\* within MaxDepth slides of the goal
SearchBoards(n) ==
    IF n = 2 THEN InitialBoards(2)
    ELSE UNION {GoalDistances[n][d + 1] : d \in 0 .. MaxDepth}

SearchInit ==
    /\ size \in Sizes
    /\ strategy \in {"astar", "bfs"}
    /\ initial_board \in SearchBoards(size)
    /\ initial_empty_pos = find_blank(initial_board, size)
    /\ nodes = <<>>
    /\ open_set = <<>>
    /\ closed_set = {}
    /\ best_g = <<>>
    /\ nodes_expanded = 0
    /\ spc = "call"
    /\ sresult = Pending
    /\ NoPlay
    /\ NoHuman
    /\ FirstCall
    /\ NoGame

\* the root node of a search
root_state(strat, b, e, n) ==
    PuzzleState(strat, b, e, 0, manhattan_distance(b, n), 0, <<>>)

\* a start of solve that leaves the instance's counter as the last call left it
SolveStart_keeping_count ==
    /\ spc = "call"
    /\ nodes' = <<root_state(strategy, initial_board, initial_empty_pos, size)>>
    /\ open_set' = heappush(<<>>, nodes', 1)
    /\ closed_set' = {}
    /\ best_g' = IF strategy = "astar" THEN (initial_board :> 0) ELSE <<>>
    /\ nodes_expanded' = nodes_expanded
    /\ spc' = "loop"
    /\ UNCHANGED <<puzzleVars, callVars, gameVars, humanVars, strategy, sresult>>

\* AStarSolver.solve lines 137-152, solve_bfs lines 757-766
SolveStart ==
    /\ spc = "call"
    /\ nodes' = <<root_state(strategy, initial_board, initial_empty_pos, size)>>
    /\ open_set' = heappush(<<>>, nodes', 1)
    /\ closed_set' = {}
    /\ best_g' = IF strategy = "astar" THEN (initial_board :> 0) ELSE <<>>
    /\ nodes_expanded' = 0
    /\ spc' = "loop"
    /\ UNCHANGED <<puzzleVars, callVars, gameVars, humanVars, strategy, sresult>>

\* a deadline tested after the pop of line 160 / 773 instead of before it
SearchTimeout_after_pop ==
    /\ spc = "loop"
    /\ open_set # <<>>
    /\ spc' = "done"
    /\ sresult' = ReturnNone("timeout")
    /\ open_set' = heappop_rest(open_set, nodes)
    /\ UNCHANGED <<puzzleVars, callVars, gameVars, humanVars, strategy, nodes, closed_set,
                   best_g, nodes_expanded>>

\* lines 156-157 / 769-770: the deadline has passed when the loop tests it
SearchTimeout ==
    /\ spc = "loop"
    /\ open_set # <<>>
    /\ spc' = "done"
    /\ sresult' = ReturnNone("timeout")
    /\ UNCHANGED <<puzzleVars, callVars, gameVars, humanVars, strategy, nodes, open_set, closed_set,
                   best_g, nodes_expanded>>

\* an expansion that slides on the popped node's own board instead of a copy
expand_in_place(strat, sr, cur, n) ==
    consider_all(strat,
                 Search([sr.nodes EXCEPT ![cur].board =
                            SlideBoard(@, sr.nodes[cur].empty_pos,
                                       get_possible_moves(sr.nodes[cur].empty_pos, n)[1])],
                        sr.open_set,
                        sr.closed_set \cup {sr.nodes[cur].board}, sr.best_g),
                 get_neighbors(strat, sr.nodes[cur], cur, n), 1)

\* an expansion that considers the first neighbor only
expand_first_neighbor(strat, sr, cur, n) ==
    consider_all(strat,
                 Search(sr.nodes, sr.open_set,
                        sr.closed_set \cup {sr.nodes[cur].board}, sr.best_g),
                 SubSeq(get_neighbors(strat, sr.nodes[cur], cur, n), 1, 1), 1)

\* lines 172-184 / 782-788: close the popped node cur and consider its neighbors
expand(strat, sr, cur, n) ==
    consider_all(strat,
                 Search(sr.nodes, sr.open_set,
                        sr.closed_set \cup {sr.nodes[cur].board}, sr.best_g),
                 get_neighbors(strat, sr.nodes[cur], cur, n), 1)

CommitSearch(sr) ==
    /\ nodes' = sr.nodes
    /\ open_set' = sr.open_set
    /\ closed_set' = sr.closed_set
    /\ best_g' = sr.best_g

\* a visit that expands the popped node without looking at the closed set
SearchVisit_without_closed_check(cur, rest) ==
    /\ nodes_expanded' = nodes_expanded + 1
    /\ IF is_goal(nodes[cur].board, size)
       THEN /\ spc' = "done"
            /\ sresult' = ReturnList(reconstruct_path(nodes, cur))
            /\ open_set' = rest
            /\ UNCHANGED <<nodes, closed_set, best_g>>
       ELSE /\ CommitSearch(expand(strategy,
                                   Search(nodes, rest, closed_set, best_g),
                                   cur, size))
            /\ UNCHANGED <<spc, sresult>>

\* lines 159-184 / 772-788 for the popped node cur, the heap already popped
SearchVisit(cur, rest) ==
    IF nodes[cur].board \in closed_set
    THEN /\ open_set' = rest
         /\ UNCHANGED <<nodes, closed_set, best_g, nodes_expanded, spc, sresult>>
    ELSE /\ nodes_expanded' = nodes_expanded + 1
         /\ IF is_goal(nodes[cur].board, size)
            THEN /\ spc' = "done"
                 /\ sresult' = ReturnList(reconstruct_path(nodes, cur))
                 /\ open_set' = rest
                 /\ UNCHANGED <<nodes, closed_set, best_g>>
            ELSE /\ CommitSearch(expand(strategy,
                                        Search(nodes, rest, closed_set, best_g),
                                        cur, size))
                 /\ UNCHANGED <<spc, sresult>>

\* one pass of the main loop before the deadline (lines 154-184 / 768-788),
\* or the return of line 187 / 790 when the open set is empty
SearchLoop ==
    /\ spc = "loop"
    /\ IF open_set = <<>>
       THEN /\ spc' = "done"
            /\ sresult' = ReturnNone("exhausted")
            /\ UNCHANGED <<nodes, open_set, closed_set, best_g, nodes_expanded>>
       ELSE SearchVisit(open_set[1], heappop_rest(open_set, nodes))
    /\ UNCHANGED <<puzzleVars, callVars, gameVars, humanVars, strategy>>

SearchNext ==
    \/ SolveStart
    \/ SearchLoop
    \/ SearchTimeout

SpecSearch == SearchInit /\ [][SearchNext]_vars

\* the two solvers side by side: a run is one call of one of them
SolversInit == HumanInit \/ SearchInit

SolversNext == HumanNext \/ SearchNext

SpecSolvers == SolversInit /\ [][SolversNext]_vars

\* the positions at which the solve has a step to take; every step changes
\* the state, so this is ENABLED <<HumanNext>>_vars
HumanRunning ==
    pc \in {"call", "outer", "row_loop", "row_inner", "col_loop", "col_inner",
            "two_by_two", "rotate"}

\* solve_puzzle_strategically runs in the calling thread, so a step that can
\* be taken is taken: weak fairness of HumanNext, i.e. WF_vars(HumanNext) with
\* its ENABLED written out as HumanRunning
SpecHumanFair ==
    SpecHuman /\ ([]<>(~HumanRunning) \/ []<><<HumanNext>>_vars)

----------------------------------------------------------------------------
(* Layer-reduction solver: the returned moves *)

Solvable == is_solvable(initial_board, initial_empty_pos, size)

Replayed(moves) == Replay(initial_board, initial_empty_pos, size, moves)

\* C1: a move list returned by solve_human, applied in order from the initial
\* board, ends on the goal board.
HumanListReachesGoal ==
    (pc = "done" /\ result.kind = "list") =>
        /\ Replayed(result.moves).ok
        /\ is_solved(Replayed(result.moves).board, size)

HumanListWitness ==
    /\ pc = "done"
    /\ result.kind = "list"
    /\ size = 4
    /\ Len(result.moves) > 40
    /\ is_solved(Replayed(result.moves).board, size)

BlankOf(p) == <<p.blank_row, p.blank_col>>

\* the moves a step of the solve appends to coord_moves
NewMoves ==
    IF pc = "call" THEN puzzle'.coord_moves
    ELSE SubSeq(puzzle'.coord_moves, Len(puzzle.coord_moves) + 1,
                Len(puzzle'.coord_moves))

\* the board and blank a step of the solve starts from
BoardBefore == IF pc = "call" THEN initial_board ELSE puzzle.matrix

BlankBefore == IF pc = "call" THEN initial_empty_pos ELSE BlankOf(puzzle)

\* a slide attempted with the blank on the board's edge in that direction
\* leaves the puzzle, coord_moves included, as it was
EdgeSlideRecordsNothing(p) ==
    /\ p.blank_row = 0 => slide_up(p) = p
    /\ p.blank_row = p.rows - 1 => slide_down(p) = p
    /\ p.blank_col = 0 => slide_left(p) = p
    /\ p.blank_col = p.cols - 1 => slide_right(p) = p

\* C2: every move the solver records is adjacent to the blank when it is
\* applied: PuzzleModel.move accepts the moves of every step in turn, from the
\* board the step started on to the solver's own matrix after it; and a slide
\* attempted with the blank on the board's edge records nothing.
RecordedMovesAreLegal ==
    [][pc' \notin {"call", "idle"} =>
        /\ Replay(BoardBefore, BlankBefore, size, NewMoves) =
               [board |-> puzzle'.matrix, empty_pos |-> BlankOf(puzzle'), ok |-> TRUE]
        /\ EdgeSlideRecordsNothing(puzzle')]_vars

RecordedMovesWitness ==
    /\ pc = "rotate"
    /\ size = 3
    /\ Len(puzzle.coord_moves) > 20
    /\ puzzle.blank_row = 2
    /\ slide_down(puzzle).coord_moves = puzzle.coord_moves
    /\ Replayed(puzzle.coord_moves).ok

----------------------------------------------------------------------------
(* Layer-reduction solver: termination and the unsolved rectangle *)

\* C6: for a solvable board the solve ends by returning a move list: it does
\* not return None (row guard, column guard or 2x2 ceiling), does not raise and
\* does not hang in a blank-navigation loop.
SolvableBoardIsSolved ==
    Solvable => <>(pc = "done" /\ result.kind = "list")

SolvableBoardWitness ==
    /\ Solvable
    /\ pc = "done"
    /\ result.kind = "list"
    /\ size = 4
    /\ iterations > 4
    /\ row_iteration > 0

\* C10: for a well-formed unsolvable board the solve ends by returning None:
\* it returns no list, does not raise and does not hang.
UnsolvableBoardReturnsNone ==
    ~Solvable => <>(pc = "done" /\ result.kind = "None")

UnsolvableBoardWitness ==
    /\ ~Solvable
    /\ pc = "done"
    /\ result.kind = "None"
    /\ size = 4
    /\ Len(puzzle.coord_moves) > 40

\* the unsolved rectangle bounded by the four progress cursors
InRectangle(p, rc) ==
    /\ p.top_row_progress <= rc[1]
    /\ rc[1] <= p.bot_row_progress
    /\ p.left_col_progress <= rc[2]
    /\ rc[2] <= p.right_col_progress

\* every cell outside the unsolved rectangle holds its goal value
SolvedCellsKeepGoal(p, g) ==
    \A i \in Idx(p.rows), j \in Idx(p.cols) :
        ~InRectangle(p, <<i, j>>) => p.matrix[i][j] = g.matrix[i][j]

\* C7: after every step of the solve the blank is inside the unsolved
\* rectangle, every move the step recorded (every cell the blank passed
\* through) is inside it, and the cells outside it hold their goal values.
StaysInUnsolvedRectangle ==
    [][pc' \notin {"call", "idle"} =>
        /\ InRectangle(puzzle', BlankOf(puzzle'))
        /\ \A k \in 1 .. Len(NewMoves) : InRectangle(puzzle', NewMoves[k])
        /\ SolvedCellsKeepGoal(puzzle', goal_puzzle(size))]_vars

UnsolvedRectangleWitness ==
    /\ pc = "rotate"
    /\ size = 4
    /\ puzzle.top_row_progress = 2
    /\ puzzle.left_col_progress = 2
    /\ iterations > 2
    /\ InRectangle(puzzle, puzzle.coord_moves[Len(puzzle.coord_moves)])

----------------------------------------------------------------------------
(* Best-first search: the returned path *)

SearchReplayed == Replay(initial_board, initial_empty_pos, size, sresult.moves)

\* C3: a path returned by AStarSolver.solve or solve_bfs is a sequence of
\* moves each adjacent to the blank when applied (PuzzleModel.move accepts
\* every one), and applying it to the initial board gives the goal board.
SearchPathReachesGoal ==
    (spc = "done" /\ sresult.kind = "list") =>
        /\ SearchReplayed.ok
        /\ is_solved(SearchReplayed.board, size)

SearchPathWitness ==
    /\ spc = "done"
    /\ sresult.kind = "list"
    /\ strategy = "bfs"
    /\ size = 3
    /\ Len(sresult.moves) > MaxDepth
    /\ is_solved(SearchReplayed.board, size)

\* the board [[1,2,3],[4,0,5],[7,8,6]]
NearGoalBoard ==
    [i \in Idx(3) |-> [j \in Idx(3) |->
        <<<<1, 2, 3>>, <<4, 0, 5>>, <<7, 8, 6>>>>[i + 1][j + 1]]]

\* C4: when AStarSolver.solve ends on a solvable board without running out of
\* time, it returns a move list as long as the shortest path of slides from
\* the board to the goal; for [[1,2,3],[4,0,5],[7,8,6]] at most 4 moves.
AStarIsOptimal ==
    (strategy = "astar" /\ spc = "done" /\ sresult.cause # "timeout"
        /\ is_solvable(initial_board, initial_empty_pos, size)) =>
        /\ sresult.kind = "list"
        /\ Len(sresult.moves) = ShortestDistance(initial_board, size)
        /\ initial_board = NearGoalBoard => Len(sresult.moves) <= 4

AStarOptimalWitness ==
    /\ strategy = "astar"
    /\ spc = "done"
    /\ sresult.kind = "list"
    /\ size = 4
    /\ Len(sresult.moves) = MaxDepth
    /\ nodes_expanded > Len(sresult.moves) + 1

\* C8 as stated: on a board that is already the goal, solve_human returns []
\* without a slide and AStarSolver.solve returns [] having examined the root
\* node alone.  The poll of line 156 comes before the pop of line 160, so a run
\* whose budget is already spent returns None with nothing examined.
SolvedBoardAlwaysGivesEmptyList ==
    is_solved(initial_board, size) =>
        /\ pc = "done" => result = ReturnList(<<>>) /\ puzzle.coord_moves = <<>>
        /\ (strategy = "astar" /\ spc = "done") =>
               /\ sresult = ReturnList(<<>>)
               /\ nodes_expanded = 1
               /\ Len(nodes) = 1

\* C8, amended: on a board that is already the goal, solve_human returns []
\* without a slide, and AStarSolver.solve, unless its budget is spent at the
\* first poll, returns [] having examined the root node alone.
SolvedBoardGivesEmptyList ==
    is_solved(initial_board, size) =>
        /\ pc = "done" => result = ReturnList(<<>>) /\ puzzle.coord_moves = <<>>
        /\ (strategy = "astar" /\ spc = "done" /\ sresult.cause # "timeout") =>
               /\ sresult = ReturnList(<<>>)
               /\ nodes_expanded = 1
               /\ Len(nodes) = 1

SolvedBoardWitness ==
    /\ is_solved(initial_board, size)
    /\ size = 3
    /\ strategy = "astar"
    /\ spc = "done"
    /\ sresult = ReturnList(<<>>)
    /\ nodes_expanded = 1

----------------------------------------------------------------------------
(* Best-first search: the failure values *)

\* the Python value the caller of solve receives: the move list, or None
\* (`cause' is the model's record of which return statement produced it)
Returned(r) == IF r.kind = "list" THEN r.moves ELSE r.kind

\* C11: the value returned when the budget is exceeded (lines 157 / 770)
\* differs from the value returned when the open set empties without the goal
\* (lines 187 / 790).
TimeoutDistinctFromExhausted ==
    (spc = "done" /\ sresult.cause = "timeout") =>
        Returned(sresult) # Returned(ReturnNone("exhausted"))

----------------------------------------------------------------------------
(* Best-first search on input that breaks the input contract *)

\* size of the grids handed over with duplicate or missing values or a blank
\* position that is not the cell holding 0
MalformedSizes == {2}

\* every n x n grid over the values 0 .. n*n-1
Grids(n) == [Idx(n) -> [Idx(n) -> 0 .. (n * n - 1)]]

\* the input contract: each value 0 .. n*n-1 once, and e the cell holding 0
WellFormed(b, e, n) ==
    /\ \A v \in 0 .. (n * n - 1) : \E i \in Idx(n) : \E j \in Idx(n) : b[i][j] = v
    /\ b[e[1]][e[2]] = 0

\* solve(initial_board, initial_empty_pos) called with input outside the
\* contract; solve takes its arguments as they are (lines 141-142 / 760-761)
MalformedInit ==
    /\ size \in MalformedSizes
    /\ strategy \in {"astar", "bfs"}
    /\ initial_board \in Grids(size)
    /\ initial_empty_pos \in Idx(size) \X Idx(size)
    /\ ~WellFormed(initial_board, initial_empty_pos, size)
    /\ nodes = <<>>
    /\ open_set = <<>>
    /\ closed_set = {}
    /\ best_g = <<>>
    /\ nodes_expanded = 0
    /\ spc = "call"
    /\ sresult = Pending
    /\ NoPlay
    /\ NoHuman
    /\ FirstCall
    /\ NoGame

SpecMalformed == MalformedInit /\ [][SearchNext]_vars

\* C12: on input outside the contract the search expands no node and returns
\* no path.
MalformedInputFailsFast ==
    /\ nodes_expanded = 0
    /\ sresult.kind # "list"

----------------------------------------------------------------------------
(* The Manhattan heuristic *)

\* C13: for every board of a search whose distance to the goal is known, the
\* h_cost computed by manhattan_distance is at least 0 and at most the number
\* of slides of a shortest path to the goal, and it is 0 on the goal board.
ManhattanIsAdmissible ==
    \A k \in DOMAIN nodes :
        /\ nodes[k].h_cost >= 0
        /\ ShortestDistance(nodes[k].board, size) >= 0
              => nodes[k].h_cost <= ShortestDistance(nodes[k].board, size)
        /\ is_goal(nodes[k].board, size) => nodes[k].h_cost = 0

\* a 3x3 search whose root lies MaxDepth slides from the goal with a smaller
\* estimate, and which has created the goal board's node
ManhattanWitness ==
    /\ size = 3
    /\ nodes # <<>>
    /\ ShortestDistance(initial_board, size) = MaxDepth
    /\ nodes[1].h_cost > 0
    /\ nodes[1].h_cost < MaxDepth
    /\ \E k \in DOMAIN nodes : is_goal(nodes[k].board, size)

\* C14: across every legal slide the value of manhattan_distance changes by
\* exactly 1, so manhattan_distance(b) <= 1 + manhattan_distance(b') for a
\* board b and the board b' one slide away.
ManhattanIsConsistent ==
    [][/\ manhattan_distance(board, size) <= 1 + manhattan_distance(board', size)
       /\ Abs(manhattan_distance(board', size) - manhattan_distance(board, size)) = 1]_vars

\* a 3x3 board reached by slides on which the estimate is large
ManhattanSlideWitness ==
    /\ size = 3
    /\ board # initial_board
    /\ manhattan_distance(board, size) >= 20

----------------------------------------------------------------------------
(* The layer-reduction solver on boards that are not square *)

\* the shapes <<rows, cols>> of the rectangular boards
RectangularShapes == {<<2, 3>>, <<3, 2>>}

\* the canonical goal of an r x c board: 1 .. r*c-1 in row-major order, 0 last
rectangular_goal(r, c) ==
    [i \in Idx(r) |-> [j \in Idx(c) |->
        IF i = r - 1 /\ j = c - 1 THEN 0 ELSE i * c + j + 1]]

\* the cells next to cell e on an r x c board
RectangularMoves(e, r, c) ==
    {t \in Idx(r) \X Idx(c) : Abs(t[1] - e[1]) + Abs(t[2] - e[2]) = 1}

\* the boards that legal slides connect to the boards of seen, new being the
\* boards of seen not yet slid
RECURSIVE RectangularReachable(_, _, _, _)
RectangularReachable(seen, new, r, c) ==
    IF new = {} THEN seen
    ELSE LET next == UNION {{SlideBoard(b, find_blank_in(b, r, c), t) :
                                t \in RectangularMoves(find_blank_in(b, r, c), r, c)} :
                            b \in new}
         IN  RectangularReachable(seen \cup next, next \ seen, r, c)

\* the rectangular boards from which slides reach their canonical goal
RectangularBoards ==
    UNION {RectangularReachable({rectangular_goal(s[1], s[2])},
                                {rectangular_goal(s[1], s[2])}, s[1], s[2]) :
           s \in RectangularShapes}

\* StrategicSolver(size).solve(initial_board, initial_empty_pos) on an r x c
\* board, size being one of r and c
RectangularInit ==
    /\ initial_board \in RectangularBoards
    /\ size \in {len_rows(initial_board), len_cols(initial_board)}
    /\ initial_empty_pos = find_blank_in(initial_board, len_rows(initial_board),
                                         len_cols(initial_board))
    /\ puzzle = <<>>
    /\ pc = "call"
    /\ row_iteration = 0
    /\ col_iteration = 0
    /\ target_value = 0
    /\ iterations = 0
    /\ slide_vertically = TRUE
    /\ result = Pending
    /\ NoPlay
    /\ NoSearch
    /\ FirstCall
    /\ NoGame

SpecRectangular == RectangularInit /\ [][HumanNext]_vars

\* C15: on an R x C board with R # C the public solve returns a move list, and
\* the moves take the board to the R x C canonical goal.
RectangularBoardIsSolved ==
    pc = "done" =>
        /\ result.kind = "list"
        /\ puzzle.matrix = rectangular_goal(len_rows(initial_board),
                                            len_cols(initial_board))

----------------------------------------------------------------------------
(* Several solve calls on one solver instance *)

\* number of solve calls made on one instance
MaxCalls == 3

\* board sizes of the instances called repeatedly: the layer-reduction solver
\* and the searches
CallSizes == {2, 3}
SearchCallSizes == {2}

\* the boards passed to the calls: the goal's values 0, 1 and 2 arranged in
\* every way over their three cells (half of the boards are unsolvable)
CallBoards(n) ==
    {[i \in Idx(n) |-> [j \in Idx(n) |->
        IF create_goal_board(n)[i][j] \in {0, 1, 2}
        THEN pi[create_goal_board(n)[i][j]]
        ELSE create_goal_board(n)[i][j]]] : pi \in Permutations({0, 1, 2})}

\* the boards passed to the searches: those of CallBoards with tile 1 or the
\* blank in its goal cell (the goal, a board one slide from it, and an
\* unsolvable board)
SearchCallBoards(n) ==
    {b \in CallBoards(n) : b[0][0] = 1 \/ b[n - 1][n - 1] = 0}

\* the first call on a fresh StrategicSolver (solve_human) or on a fresh
\* AStarSolver / StrategicSolver with the BFS solver
CallsInit ==
    /\ \/ /\ size \in CallSizes
          /\ initial_board \in CallBoards(size)
          /\ pc = "call"
          /\ NoSearch
       \/ /\ size \in SearchCallSizes
          /\ strategy \in {"astar", "bfs"}
          /\ spc = "call"
          /\ pc = "idle"
          /\ nodes = <<>>
          /\ open_set = <<>>
          /\ closed_set = {}
          /\ best_g = <<>>
          /\ nodes_expanded = 0
          /\ sresult = Pending
          /\ initial_board \in SearchCallBoards(size)
    /\ initial_empty_pos = find_blank(initial_board, size)
    /\ puzzle = <<>>
    /\ row_iteration = 0
    /\ col_iteration = 0
    /\ target_value = 0
    /\ iterations = 0
    /\ slide_vertically = TRUE
    /\ result = Pending
    /\ NoPlay
    /\ FirstCall
    /\ NoGame

\* the outcome of a call of solve_human: the board, the value returned and the
\* Puzzle the call worked on
HumanCall == [board |-> initial_board, result |-> result, final |-> puzzle]

\* the outcome of a call of a search: the board, the value returned and the
\* instance's nodes_expanded
SearchCall == [board |-> initial_board, result |-> sresult, final |-> nodes_expanded]

\* solve_human is called again on the instance after it returned or raised;
\* the locals of the call that ended are gone, the new call assigns its own
\* before it reads them
CallAgainHuman ==
    /\ pc = "done"
    /\ calls < MaxCalls
    /\ calls' = calls + 1
    /\ earlier' = Append(earlier, HumanCall)
    /\ initial_board' \in CallBoards(size)
    /\ initial_empty_pos' = find_blank(initial_board', size)
    /\ pc' = "call"
    /\ result' = Pending
    /\ UNCHANGED <<puzzleVars, gameVars, searchVars, puzzle, row_iteration, col_iteration,
                   target_value, iterations, slide_vertically>>

\* AStarSolver.solve / solve_bfs is called again on the instance after it
\* returned; self.nodes_expanded is as the call that ended left it
CallAgainSearch ==
    /\ spc = "done"
    /\ calls < MaxCalls
    /\ calls' = calls + 1
    /\ earlier' = Append(earlier, SearchCall)
    /\ initial_board' \in SearchCallBoards(size)
    /\ initial_empty_pos' = find_blank(initial_board', size)
    /\ spc' = "call"
    /\ sresult' = Pending
    /\ UNCHANGED <<puzzleVars, gameVars, puzzle, pc, row_iteration, col_iteration, target_value,
                   iterations, slide_vertically, result, strategy, nodes, open_set,
                   closed_set, best_g, nodes_expanded>>

\* calls on one instance, one after the other
CallsNext ==
    \/ HumanNext
    \/ SearchNext
    \/ CallAgainHuman
    \/ CallAgainSearch

SpecCalls == CallsInit /\ [][CallsNext]_vars

\* C16: a call on an instance that solved other boards before returns what the
\* instance returned for the same board earlier, its first call as a fresh
\* instance included, and leaves the same Puzzle or the same nodes_expanded
\* (a search that ran out of time is compared with none: when the budget runs
\* out is not a matter of the board).
NoStateSurvives ==
    /\ pc = "done" =>
          \A k \in DOMAIN earlier : earlier[k].board = initial_board => earlier[k] = HumanCall
    /\ (spc = "done" /\ sresult.cause # "timeout") =>
          \A k \in DOMAIN earlier :
              (earlier[k].board = initial_board /\ earlier[k].result.cause # "timeout")
                  => earlier[k] = SearchCall

\* a search that found a path for the board of the instance's first call
\* after a call in between that ran out of time on another board
NoStateSurvivesWitness ==
    /\ spc = "done"
    /\ calls = 3
    /\ earlier[1].board = initial_board
    /\ earlier[2].board # initial_board
    /\ earlier[2].result = ReturnNone("timeout")
    /\ earlier[2].final > 1
    /\ sresult.kind = "list"
    /\ nodes_expanded > 1

----------------------------------------------------------------------------
(* The caller's board *)

\* C17: a solve call never writes to the list the caller passed in.  The
\* search keeps that list itself as the board of its root node (line 142 /
\* 761) and slides on deep copies of it; solve_human slides on the Puzzle's
\* own copy.
InputBoardUnchanged ==
    /\ nodes # <<>> => nodes[1].board = initial_board
    /\ puzzle # <<>> => (puzzle.own_matrix \/ puzzle.matrix = initial_board)

\* a search that returned a path of several moves: it created boards that
\* differ from the caller's
InputBoardWitness ==
    /\ spc = "done"
    /\ size = 3
    /\ sresult.kind = "list"
    /\ Len(sresult.moves) >= 5
    /\ nodes[1].board = initial_board
    /\ \E k \in DOMAIN nodes : nodes[k].board # initial_board

----------------------------------------------------------------------------
(* The two strategies on the same board *)

\* AStarSolver.solve called on a board
CompareInit ==
    /\ SearchInit
    /\ strategy = "astar"

\* after AStarSolver.solve returned a list, StrategicSolver.solve_bfs is
\* called on the same board
ThenGreedy ==
    /\ spc = "done"
    /\ strategy = "astar"
    /\ sresult.kind = "list"
    /\ strategy' = "bfs"
    /\ calls' = calls + 1
    /\ earlier' = Append(earlier, SearchCall)
    /\ spc' = "call"
    /\ sresult' = Pending
    /\ UNCHANGED <<puzzleVars, gameVars, humanVars, nodes, open_set, closed_set, best_g,
                   nodes_expanded>>

CompareNext ==
    \/ SearchNext
    \/ ThenGreedy

SpecCompare == CompareInit /\ [][CompareNext]_vars

\* C18: when both strategies return a list for a board, the greedy list is at
\* least as long as the list of A*.
GreedyNoShorterThanOptimal ==
    (strategy = "bfs" /\ spc = "done" /\ sresult.kind = "list"
        /\ earlier[1].result.kind = "list")
    => Len(sresult.moves) >= Len(earlier[1].result.moves)

\* a board on which the greedy list is longer than the list of A*
GreedyLongerWitness ==
    /\ strategy = "bfs"
    /\ spc = "done"
    /\ sresult.kind = "list"
    /\ earlier[1].result.kind = "list"
    /\ Len(sresult.moves) > Len(earlier[1].result.moves)

----------------------------------------------------------------------------
(* The order of the pops *)

\* the nodes of the open set whose f_cost is that of the node the next pop
\* returns (heap[0], open_set[1] here)
TiedWithNextPop ==
    {open_set[j] : j \in {j \in DOMAIN open_set :
        nodes[open_set[j]].f_cost = nodes[open_set[1]].f_cost}}

\* C19 as stated: among the nodes of the open set with the minimal f_cost the
\* pop returns the one pushed earliest (nodes are numbered in the order they
\* are created and pushed).
PopReturnsEarliestPushed ==
    (spc = "loop" /\ open_set # <<>>) =>
        \A k \in TiedWithNextPop : open_set[1] <= k

\* C19, amended: the pop returns a node whose f_cost no node of the open set
\* undercuts; which of several such nodes is returned follows from the layout
\* of the binary heap.
PopReturnsMinimalFCost ==
    (spc = "loop" /\ open_set # <<>>) =>
        \A j \in DOMAIN open_set : ~lt(nodes[open_set[j]], nodes[open_set[1]])

\* an open set in which a node pushed before the one at the top has the same
\* f_cost
LaterPushPoppedFirstWitness ==
    /\ spc = "loop"
    /\ open_set # <<>>
    /\ \E k \in TiedWithNextPop : k < open_set[1]

----------------------------------------------------------------------------
(* The choice between the row phase and the column phase *)

UnsolvedRows(p) == p.bot_row_progress + 1 - p.top_row_progress

UnsolvedCols(p) == p.right_col_progress + 1 - p.left_col_progress

\* a row is being placed: the inner loop of the row phase is running
RowPhase == pc = "row_inner"

\* a column is being placed
ColPhase == pc = "col_inner"

\* the step fixes a row: the region loses a row
FixesRow == UnsolvedRows(puzzle') # UnsolvedRows(puzzle)

FixesCol == UnsolvedCols(puzzle') # UnsolvedCols(puzzle)

\* C20: a row is worked on or fixed only while the unsolved region has more
\* than 2 rows and at least as many rows as columns, a column only while it
\* has more than 2 columns and more columns than rows; on the N x N boards
\* the region always has as many columns as rows or one more, and rows and
\* columns are fixed in turn: a row only from a square region, a column only
\* from a region with one column more, one at a time.
PhaseSelection ==
    /\ [](puzzle # <<>> =>
            /\ RowPhase => (UnsolvedRows(puzzle) > 2
                            /\ UnsolvedRows(puzzle) >= UnsolvedCols(puzzle))
            /\ ColPhase => (UnsolvedCols(puzzle) > 2
                            /\ UnsolvedCols(puzzle) > UnsolvedRows(puzzle))
            /\ UnsolvedCols(puzzle) - UnsolvedRows(puzzle) \in {0, 1})
    /\ [][(puzzle # <<>> /\ puzzle' # <<>>) =>
            /\ FixesRow =>
                  /\ pc = "row_loop"
                  /\ UnsolvedRows(puzzle) > 2
                  /\ UnsolvedRows(puzzle) = UnsolvedCols(puzzle)
                  /\ UnsolvedRows(puzzle') = UnsolvedRows(puzzle) - 1
                  /\ ~FixesCol
            /\ FixesCol =>
                  /\ pc = "col_loop"
                  /\ UnsolvedCols(puzzle) > 2
                  /\ UnsolvedCols(puzzle) = UnsolvedRows(puzzle) + 1
                  /\ UnsolvedCols(puzzle') = UnsolvedCols(puzzle) - 1
                  /\ ~FixesRow]_vars

\* a 4 x 4 board on which the second row is being placed after a row and a
\* column have been fixed, tiles having been slid
PhaseSelectionWitness ==
    /\ size = 4
    /\ puzzle # <<>>
    /\ RowPhase
    /\ puzzle.top_row_progress = 1
    /\ puzzle.left_col_progress = 1
    /\ UnsolvedRows(puzzle) = 3
    /\ UnsolvedCols(puzzle) = 3
    /\ puzzle.coord_moves # <<>>

----------------------------------------------------------------------------
(* The retry guards of the row and column loops *)

\* the row in progress is not yet the goal's row: the inner loop's body runs
RowUnfinished ==
    /\ pc = "row_inner"
    /\ ~is_row_equal(goal_puzzle(size), puzzle, puzzle.row_in_progress)

ColUnfinished ==
    /\ pc = "col_inner"
    /\ ~is_col_equal(goal_puzzle(size), puzzle, puzzle.col_in_progress)

\* the step returns the guard's failure (line 531, line 614)
GuardFails(cause) ==
    /\ pc' = "done"
    /\ result' = ReturnNone(cause)
    /\ puzzle' = puzzle

ShapesInit == HumanInit \/ RectangularInit

SpecShapes == ShapesInit /\ [][HumanNext]_vars

\* the step runs the last-two-tiles maneuver of the row in progress: the
\* target is the second-last value of the row (line 534) and the guard lets
\* the body run
RowManeuverRuns ==
    /\ RowUnfinished
    /\ ~row_guard(row_iteration)
    /\ target_value = goal_at(goal_puzzle(size), puzzle.row_in_progress,
                              puzzle.right_col_progress - 1)

ColManeuverRuns ==
    /\ ColUnfinished
    /\ ~col_guard(col_iteration)
    /\ target_value = goal_at(goal_puzzle(size), puzzle.bot_row_progress - 1,
                              puzzle.col_in_progress)

\* C22: for one row or column in progress the last-two-tiles maneuver runs
\* at most twice (the counter counts its runs and is set back only when a row
\* or column is begun), and the guard fails the solve exactly when the row or
\* column is still unequal to the goal's after the second run.
AtMostTwoManeuvers ==
    /\ [](row_iteration \in {0, 1, 2} /\ col_iteration \in {0, 1, 2})
    /\ [][/\ pc = "row_inner" =>
                /\ GuardFails("row_guard") <=> (RowUnfinished /\ row_iteration = 2)
                /\ row_iteration' = row_iteration + (IF RowManeuverRuns THEN 1 ELSE 0)
          /\ pc = "col_inner" =>
                /\ GuardFails("col_guard") <=> (ColUnfinished /\ col_iteration = 2)
                /\ col_iteration' = col_iteration + (IF ColManeuverRuns THEN 1 ELSE 0)
          /\ row_iteration' < row_iteration => (pc = "row_loop" /\ row_iteration' = 0)
          /\ col_iteration' < col_iteration => (pc = "col_loop" /\ col_iteration' = 0)
          /\ result'.cause \in {"row_guard", "col_guard"} =>
                pc \in {"row_inner", "col_inner"}]_vars

\* the row in progress is still unequal after the second run of the maneuver
SecondManeuverWitness ==
    /\ RowUnfinished
    /\ row_iteration = 2
    /\ puzzle.row_progress_col = 0

----------------------------------------------------------------------------
(* The 2 x 2 close phase *)

\* the phase is running: the rotation loop's condition is about to be
\* evaluated
Rotating == pc = "rotate"

SlidesMade(p) == Len(p.coord_moves)

\* C23: the 2 x 2 phase stops without a slide as soon as the board equals the
\* goal; otherwise a pass makes at most one slide and counts one iteration,
\* and the solve fails exactly in the pass that takes the count above 20, so
\* that the count never exceeds 21 and the phase makes at most 21 slides.
CloseIsBounded ==
    /\ [](iterations \in 0 .. 21)
    /\ [](result = ReturnNone("ceiling") =>
            (iterations = 21 /\ ~is_equal_to_puzzle(goal_puzzle(size), puzzle)))
    /\ [][Rotating =>
            IF is_equal_to_puzzle(goal_puzzle(size), puzzle)
            THEN /\ pc' = "outer"
                 /\ puzzle' = puzzle
                 /\ iterations' = iterations
                 /\ result' = result
            ELSE /\ iterations' = iterations + 1
                 /\ SlidesMade(puzzle') - SlidesMade(puzzle) \in {0, 1}
                 /\ (pc' = "done" /\ result' = ReturnNone("ceiling"))
                        <=> iterations' > 20
                 /\ iterations' <= 20 => (pc' = "rotate" /\ result' = result)]_vars

\* a solve failed by the ceiling after 21 passes of the phase
CeilingWitness ==
    /\ pc = "done"
    /\ result = ReturnNone("ceiling")
    /\ iterations = 21
    /\ SlidesMade(puzzle) >= 21

\* the corner of the unsolved 2 x 2 region the blank is in, "out" when the
\* blank is in none of them
Corner(p) ==
    IF p.blank_row = p.top_row_progress /\ p.blank_col = p.left_col_progress THEN "TL"
    ELSE IF p.blank_row = p.top_row_progress /\ p.blank_col = p.right_col_progress THEN "TR"
    ELSE IF p.blank_row = p.bot_row_progress /\ p.blank_col = p.right_col_progress THEN "BR"
    ELSE IF p.blank_row = p.bot_row_progress /\ p.blank_col = p.left_col_progress THEN "BL"
    ELSE "out"

\* the next corner going round clockwise on the board as displayed (row 0 at
\* the top), and going round the other way
ClockwiseOf(c) ==
    CASE c = "TL" -> "TR" [] c = "TR" -> "BR" [] c = "BR" -> "BL" [] c = "BL" -> "TL"
      [] OTHER -> "out"

CounterClockwiseOf(c) ==
    CASE c = "TL" -> "BL" [] c = "BL" -> "BR" [] c = "BR" -> "TR" [] c = "TR" -> "TL"
      [] OTHER -> "out"

\* a pass of the rotation loop that slides
RotationSlides == Rotating /\ puzzle' # puzzle

\* the way round the blank goes, as decided by its corner and the kind of the
\* next slide
GoesClockwise(p, vertical) ==
    IF vertical THEN Corner(p) \in {"TR", "BL"} ELSE Corner(p) \in {"TL", "BR"}

\* C24 as stated: every slide of the 2 x 2 phase takes the blank to the next
\* corner clockwise, whatever corner the phase started in.
BlankGoesClockwise ==
    [][RotationSlides => Corner(puzzle') = ClockwiseOf(Corner(puzzle))]_vars

\* C24, amended: the slides of the 2 x 2 phase alternate, vertical first, and
\* take the blank round the four corners of the region in one direction kept
\* for the whole phase: clockwise when the phase starts with the blank in the
\* top-right or bottom-left corner, counter-clockwise when it starts in the
\* top-left or bottom-right corner.
BlankGoesRound ==
    /\ [][(pc = "two_by_two" /\ pc' = "rotate") => slide_vertically']_vars
    /\ [][RotationSlides =>
            /\ Corner(puzzle) # "out"
            /\ slide_vertically' = ~slide_vertically
            /\ slide_vertically <=> puzzle'.blank_col = puzzle.blank_col
            /\ Corner(puzzle') =
                  IF GoesClockwise(puzzle, slide_vertically)
                  THEN ClockwiseOf(Corner(puzzle))
                  ELSE CounterClockwiseOf(Corner(puzzle))
            /\ GoesClockwise(puzzle', slide_vertically')
                  <=> GoesClockwise(puzzle, slide_vertically)]_vars

\* the blank has gone round counter-clockwise for four slides and is back in
\* the bottom-right corner, where it started
CounterClockwiseWitness ==
    /\ Rotating
    /\ find_blank(initial_board, size) = <<size - 1, size - 1>>
    /\ iterations = 4
    /\ slide_vertically
    /\ Corner(puzzle) = "BR"
    /\ ~GoesClockwise(puzzle, slide_vertically)

\* C25: on a solvable board the 2 x 2 phase reaches the goal within 11
\* slides: the count of its passes never exceeds 11, the blank is in a corner
\* of the region whenever a pass begins, and the ceiling's failure is never
\* returned.
SolvableClosesInEleven ==
    Solvable =>
        /\ iterations <= 11
        /\ result # ReturnNone("ceiling")
        /\ Rotating => Corner(puzzle) # "out"
        /\ (Rotating /\ iterations = 11) =>
              is_equal_to_puzzle(goal_puzzle(size), puzzle)

\* a solvable 4 x 4 board solved with eleven slides of the 2 x 2 phase
ElevenSlidesWitness ==
    /\ size = 4
    /\ Solvable
    /\ pc = "done"
    /\ result.kind = "list"
    /\ iterations = 11

----------------------------------------------------------------------------
(* The direction of the row and column sweeps *)

\* the row loop's guard holds: a row is about to be advanced over or begun
RowLoopRuns ==
    /\ pc = "row_loop"
    /\ more_than_two_unsolved_rows(puzzle)
    /\ more_unsolved_rows_than_cols(puzzle)

ColLoopRuns ==
    /\ pc = "col_loop"
    /\ more_than_two_unsolved_cols(puzzle)
    /\ more_unsolved_cols_than_rows(puzzle)

\* C26 as stated: each sweep direction flips exactly once in a solve, so that
\* a solve that has fixed rows and columns and returned its moves ends with
\* both sweeps turned.
DirectionFlipsOnce ==
    (pc = "done" /\ result.kind = "list" /\ puzzle.top_row_progress > 0
        /\ puzzle.left_col_progress > 0) =>
        /\ ~puzzle.solving_row_top_down
        /\ ~puzzle.solving_col_left_right

\* C26, amended: a sweep direction changes only from top-down to bottom-up
\* (left-right to right-left), only in the row (column) loop when the row
\* (column) in progress is the goal's blank row (column), and never changes
\* back; on the N x N boards the row in progress of a running row loop is
\* never the goal's blank row, nor the column in progress the goal's blank
\* column, so that no sweep ever turns.
DirectionNeverFlipsBack ==
    /\ [](puzzle # <<>> =>
            /\ puzzle.solving_row_top_down
            /\ puzzle.solving_col_left_right
            /\ RowLoopRuns => puzzle.row_in_progress # goal_puzzle(size).blank_row
            /\ ColLoopRuns => puzzle.col_in_progress # goal_puzzle(size).blank_col)
    /\ [][(puzzle # <<>> /\ puzzle' # <<>>) =>
            /\ puzzle'.solving_row_top_down # puzzle.solving_row_top_down =>
                  /\ puzzle.solving_row_top_down
                  /\ RowLoopRuns
                  /\ puzzle.row_in_progress = goal_puzzle(size).blank_row
            /\ puzzle'.solving_col_left_right # puzzle.solving_col_left_right =>
                  /\ puzzle.solving_col_left_right
                  /\ ColLoopRuns
                  /\ puzzle.col_in_progress = goal_puzzle(size).blank_col]_vars

\* a 4 x 4 board solved with two rows and two columns fixed, rows and columns
\* having been placed by slides, both sweeps as they started
NoFlipWitness ==
    /\ size = 4
    /\ pc = "done"
    /\ result.kind = "list"
    /\ puzzle.top_row_progress = 2
    /\ puzzle.left_col_progress = 2
    /\ row_iteration = 1
    /\ col_iteration = 1
    /\ puzzle.solving_row_top_down
    /\ puzzle.solving_col_left_right

----------------------------------------------------------------------------
(* The progress cursors *)

\* C27: during a solve top_row_progress and left_col_progress never decrease
\* and bot_row_progress and right_col_progress never increase; a cursor moves
\* by exactly 1, a row cursor only when the row in progress equals the goal's
\* row and a column cursor only when the column in progress equals the goal's
\* column; the unsolved region always has at least 2 rows and 2 columns.
CursorsAreMonotonic ==
    /\ [](puzzle # <<>> => (UnsolvedRows(puzzle) >= 2 /\ UnsolvedCols(puzzle) >= 2))
    /\ [][(puzzle # <<>> /\ puzzle' # <<>>) =>
            /\ puzzle'.top_row_progress - puzzle.top_row_progress \in {0, 1}
            /\ puzzle'.left_col_progress - puzzle.left_col_progress \in {0, 1}
            /\ puzzle.bot_row_progress - puzzle'.bot_row_progress \in {0, 1}
            /\ puzzle.right_col_progress - puzzle'.right_col_progress \in {0, 1}
            /\ FixesRow =>
                  /\ is_row_equal(goal_puzzle(size), puzzle, puzzle.row_in_progress)
                  /\ puzzle'.matrix = puzzle.matrix
            /\ FixesCol =>
                  /\ is_col_equal(goal_puzzle(size), puzzle, puzzle.col_in_progress)
                  /\ puzzle'.matrix = puzzle.matrix]_vars

\* the region of a 4 x 4 board has come down to 2 x 2 by two rows and two
\* columns placed with slides, and the 2 x 2 phase begins
CursorsWitness ==
    /\ size = 4
    /\ Rotating
    /\ iterations = 0
    /\ puzzle.top_row_progress = 2
    /\ puzzle.left_col_progress = 2
    /\ UnsolvedRows(puzzle) = 2
    /\ UnsolvedCols(puzzle) = 2
    /\ row_iteration = 1
    /\ col_iteration = 1

\* C28: with the goal the solver builds, bot_row_progress and
\* right_col_progress keep the values the solve starts with: a row is fixed
\* by moving top_row_progress, a column by moving left_col_progress, and the
\* 2 x 2 region of the close phase is the bottom-right corner of the board.
FixedFromTopAndLeft ==
    /\ [](puzzle # <<>> =>
            /\ puzzle.bot_row_progress = puzzle.rows - 1
            /\ puzzle.right_col_progress = puzzle.cols - 1
            /\ Rotating =>
                  /\ puzzle.top_row_progress = puzzle.rows - 2
                  /\ puzzle.left_col_progress = puzzle.cols - 2)
    /\ [][(puzzle # <<>> /\ puzzle' # <<>>) =>
            /\ FixesRow =>
                  /\ puzzle'.top_row_progress = puzzle.top_row_progress + 1
                  /\ puzzle'.row_in_progress = puzzle'.top_row_progress
            /\ FixesCol =>
                  /\ puzzle'.left_col_progress = puzzle.left_col_progress + 1
                  /\ puzzle'.col_in_progress = puzzle'.left_col_progress]_vars

\* the close phase of a 3 x 3 board at work in the bottom-right corner after
\* the top row and the left column were placed
BottomRightWitness ==
    /\ size = 3
    /\ Rotating
    /\ iterations = 3
    /\ puzzle.top_row_progress = 1
    /\ puzzle.left_col_progress = 1
    /\ puzzle.bot_row_progress = 2
    /\ puzzle.right_col_progress = 2
    /\ row_iteration = 1
    /\ col_iteration = 1

----------------------------------------------------------------------------
(* Play: PuzzleModel.move on the game's board *)

MaxMoves == 5

PlaySizes == {2, 3}

\* the positions a caller passes to move: the cells of the board and the
\* positions one step outside it
TilePositions(n) == (-1 .. n) \X (-1 .. n)

\* the boards the games start on: one solvable and one unsolvable arrangement
PlayBoards(n) == {create_goal_board(n), SwappedGoal(n)}

\* a game on a board as generate_random_board leaves it: an arrangement of
\* the values, empty_pos the cell of the 0, no move made
PlayInit ==
    /\ size \in PlaySizes
    /\ board \in PlayBoards(size)
    /\ empty_pos = find_blank(board, size)
    /\ move_count = 0
    /\ last_move_ok = TRUE
    /\ last_tile_pos = <<0, 0>>
    /\ initial_board = board
    /\ initial_empty_pos = empty_pos
    /\ NoHuman
    /\ NoSearch
    /\ FirstCall
    /\ NoGame

\* PuzzleModel.move(tile_pos)
Move ==
    /\ board # <<>>
    /\ pc = "idle"
    /\ move_count < MaxMoves
    /\ \E tile_pos \in TilePositions(size) :
          LET r == move(board, empty_pos, move_count, size, tile_pos)
          IN  /\ board' = r.board
              /\ empty_pos' = r.empty_pos
              /\ move_count' = r.move_count
              /\ last_move_ok' = r.ok
              /\ last_tile_pos' = tile_pos
    /\ UNCHANGED <<size, humanVars, searchVars, callVars, gameVars>>

SpecPlay == PlayInit /\ [][Move]_vars

\* ComputerPlayerController._solve_puzzle_thread, lines 209-212: the solver
\* is called on a copy of the game's board
SolvePuzzleThread ==
    /\ board # <<>>
    /\ pc = "idle"
    /\ initial_board' = board
    /\ initial_empty_pos' = empty_pos
    /\ pc' = "call"
    /\ UNCHANGED <<puzzleVars, searchVars, callVars, gameVars, puzzle, row_iteration,
                   col_iteration, target_value, iterations, slide_vertically,
                   result>>

\* the boards of the games and of the solves together: games whose board is
\* given to solve_human after some moves, and solves of the boards drawn for
\* the solver alone
BoardsInit == PlayInit \/ HumanInit \/ RectangularInit

BoardsNext == Move \/ SolvePuzzleThread \/ HumanNext

SpecBoards == BoardsInit /\ [][BoardsNext]_vars

\* the cells of a grid of r rows and c columns that hold the value v
CellsHolding(m, r, c, v) ==
    {rc \in (0 .. (r - 1)) \X (0 .. (c - 1)) : m[rc[1]][rc[2]] = v}

\* every value 0 .. r * c - 1 is in exactly one cell, and the blank recorded
\* at <<br, bc>> is the cell of the 0
GridIsSound(m, r, c, br, bc) ==
    /\ \A v \in 0 .. (r * c - 1) : Cardinality(CellsHolding(m, r, c, v)) = 1
    /\ CellsHolding(m, r, c, 0) = {<<br, bc>>}

\* C29: whatever slides were made, the grid of the game and the grid of the
\* solve's Puzzle hold each value 0 .. R * C - 1 exactly once, and the blank
\* recorded (empty_pos; blank_row, blank_col) is the cell that holds 0.
BoardStaysSound ==
    /\ board # <<>> =>
          GridIsSound(board, size, size, empty_pos[1], empty_pos[2])
    /\ puzzle # <<>> =>
          GridIsSound(puzzle.matrix, puzzle.rows, puzzle.cols,
                      puzzle.blank_row, puzzle.blank_col)

\* a game of 3 moves whose board was then given to the solver, which has slid
\* 8 tiles of its own copy
SoundAfterSlidesWitness ==
    /\ size = 3
    /\ move_count = 3
    /\ last_move_ok
    /\ puzzle # <<>>
    /\ SlidesMade(puzzle) = 8
    /\ puzzle.matrix # board

\* tile_pos is a cell of the board next to the blank in its row or column
NextToBlank(t, e, n) ==
    /\ t[1] \in 0 .. (n - 1)
    /\ t[2] \in 0 .. (n - 1)
    /\ Abs(t[1] - e[1]) + Abs(t[2] - e[2]) = 1

\* the board after the tile at t and the blank at e changed places
TileAndBlankExchanged(b, e, t, n) ==
    [i \in 0 .. (n - 1) |-> [j \in 0 .. (n - 1) |->
        IF <<i, j>> = t THEN 0
        ELSE IF <<i, j>> = e THEN b[t[1]][t[2]]
        ELSE b[i][j]]]

\* C30: move(tile_pos) returns True exactly when tile_pos is a cell of the
\* board orthogonally adjacent to the blank; it then exchanges the tile and
\* the blank, makes tile_pos the empty_pos and adds 1 to move_count; when it
\* returns False the board, empty_pos and move_count are as before.
MoveIsExact ==
    [][(last_move_ok' <=> NextToBlank(last_tile_pos', empty_pos, size))
       /\ IF NextToBlank(last_tile_pos', empty_pos, size)
          THEN /\ board' = TileAndBlankExchanged(board, empty_pos, last_tile_pos', size)
               /\ empty_pos' = last_tile_pos'
               /\ move_count' = move_count + 1
          ELSE /\ board' = board
               /\ empty_pos' = empty_pos
               /\ move_count' = move_count]_vars

\* after two moves made, a move of the blank's own cell was rejected
RejectedMoveWitness ==
    /\ size = 3
    /\ move_count = 2
    /\ ~last_move_ok
    /\ last_tile_pos = empty_pos
    /\ empty_pos = <<1, 1>>
    /\ board # initial_board

----------------------------------------------------------------------------
(* The search: the closed set and the recorded costs *)

\* the boards that slides lead to from the boards of `new', with those of
\* `seen'
RECURSIVE ReachableBoards(_, _, _)
ReachableBoards(seen, new, n) ==
    IF new = {} THEN seen
    ELSE ReachableBoards(seen \cup new, SlideNeighbors(new, n) \ (seen \cup new), n)

\* the boards of the nodes created so far
BoardsCreated == {nodes[k].board : k \in DOMAIN nodes}

\* the node the next pop returns is a stale duplicate: its board is closed
PopsClosedBoard ==
    /\ spc = "loop"
    /\ open_set # <<>>
    /\ nodes[open_set[1]].board \in closed_set

\* C31: a popped node whose board is closed is discarded, nothing being
\* expanded or counted; so nodes_expanded counts each board once (the closed
\* boards, and the goal when it was popped), every board created comes from
\* its parent's board by a legal slide, and nodes_expanded never exceeds the
\* number of boards reachable from the initial board.
LazyDeletion ==
    /\ [](nodes_expanded = Cardinality(closed_set)
                             + (IF sresult.kind = "list" THEN 1 ELSE 0))
    /\ [](closed_set \subseteq BoardsCreated)
    /\ [](\A k \in DOMAIN nodes : nodes[k].parent # 0 =>
            /\ nodes[k].move \in SeqToSet(get_possible_moves(
                                    nodes[nodes[k].parent].empty_pos, size))
            /\ nodes[k].board = SlideBoard(nodes[nodes[k].parent].board,
                                           nodes[nodes[k].parent].empty_pos,
                                           nodes[k].move))
    /\ [](size = 2 => nodes_expanded <=
            Cardinality(ReachableBoards({}, {initial_board}, size)))
    /\ [][PopsClosedBoard =>
            /\ nodes' = nodes
            /\ closed_set' = closed_set
            /\ best_g' = best_g
            /\ nodes_expanded' = nodes_expanded
            /\ sresult'.kind # "list"]_vars

\* a stale duplicate of a closed board is at the top of the open set of a
\* greedy search on a 3 x 3 board
StaleDuplicateWitness ==
    /\ PopsClosedBoard
    /\ strategy = "bfs"
    /\ size = 3
    /\ nodes_expanded >= 3

\* the boards within d slides of the boards of `new', with those of `seen'
RECURSIVE BoardsWithin(_, _, _, _)
BoardsWithin(seen, new, n, d) ==
    IF d = 0 \/ new = {} THEN seen \cup new
    ELSE BoardsWithin(seen \cup new, SlideNeighbors(new, n) \ (seen \cup new), n, d - 1)

\* no path of fewer than g slides leads from the initial board to b
NoShorterPath(b, g) ==
    g = 0 \/ b \notin BoardsWithin({}, {initial_board}, size, g - 1)

\* the nodes the step creates and pushes
Pushed == {k \in DOMAIN nodes' : k > Len(nodes)}

\* the step of AStarSolver.solve expands the node at the top of the open set
AStarExpands ==
    /\ strategy = "astar"
    /\ spc = "loop"
    /\ closed_set' # closed_set

\* C32: AStarSolver.solve pushes a neighbor only when its board is not
\* closed and its g_cost is below every g_cost recorded for the board, and
\* records that g_cost; the g_cost recorded for a board never grows; the
\* g_cost of a board when it is closed is the length of a shortest path of
\* slides from the initial board.
BestGIsKept ==
    [][strategy = "astar" =>
          /\ \A k \in Pushed :
                /\ nodes'[k].board \notin closed_set'
                /\ nodes'[k].board \in DOMAIN best_g =>
                      nodes'[k].g_cost < best_g[nodes'[k].board]
                /\ \A j \in DOMAIN nodes :
                      nodes[j].board = nodes'[k].board =>
                          nodes'[k].g_cost < nodes[j].g_cost
                /\ best_g'[nodes'[k].board] = nodes'[k].g_cost
          /\ spc = "loop" =>
                \A b \in DOMAIN best_g :
                    /\ b \in DOMAIN best_g'
                    /\ best_g'[b] <= best_g[b]
          /\ AStarExpands =>
                /\ closed_set' = closed_set \cup {nodes[open_set[1]].board}
                /\ best_g[nodes[open_set[1]].board] = nodes[open_set[1]].g_cost
                /\ NoShorterPath(nodes[open_set[1]].board, nodes[open_set[1]].g_cost)]_vars

\* a board was pushed a second time with a smaller g_cost, which is the one
\* recorded
SmallerGWitness ==
    /\ strategy = "astar"
    /\ \E j \in DOMAIN nodes : \E k \in DOMAIN nodes :
          /\ j < k
          /\ nodes[j].board = nodes[k].board
          /\ nodes[k].g_cost < nodes[j].g_cost
          /\ best_g[nodes[k].board] = nodes[k].g_cost

----------------------------------------------------------------------------
(* The search without a deadline *)

\* the searches of the 2 x 2 boards, half of which are unsolvable
ExhaustInit == SearchInit /\ size = 2

\* the steps of a search whose budget never expires: the test of lines
\* 156-157 / 769-770 is false in every pass
ExhaustNext == SolveStart \/ SearchLoop

\* the search is between its call and its return; every such state has a
\* step of ExhaustNext that changes the state, so this is
\* ENABLED <<ExhaustNext>>_vars
SearchRunning == spc \in {"call", "loop"}

\* solve runs in the calling thread, so a pass that can be made is made: weak
\* fairness of ExhaustNext, with its ENABLED written out as SearchRunning
SpecExhaust ==
    /\ ExhaustInit
    /\ [][ExhaustNext]_vars
    /\ ([]<>(~SearchRunning) \/ []<><<ExhaustNext>>_vars)

\* the search has returned failure with the open set empty, every board
\* reachable from the initial board closed and counted once
Exhausted ==
    /\ spc = "done"
    /\ sresult = ReturnNone("exhausted")
    /\ open_set = <<>>
    /\ closed_set = ReachableBoards({}, {initial_board}, size)
    /\ nodes_expanded = Cardinality(closed_set)

\* C33: with a budget that never expires the search of an unsolvable board
\* ends: it returns failure, no move list, with the open set empty and each
\* board reachable from the initial board expanded exactly once.
UnsolvableIsExhausted ==
    (spc = "call" /\ ~Solvable) ~> Exhausted

\* the search of an unsolvable 2 x 2 board has closed its 12 reachable
\* boards and returned failure
ExhaustedWitness ==
    /\ ~Solvable
    /\ Exhausted
    /\ nodes_expanded = 12
    /\ Len(nodes) >= 12

----------------------------------------------------------------------------
(* The search: the deadline *)

\* the step in which the loop finds the budget exceeded
DeadlineStep == spc = "loop" /\ sresult'.cause = "timeout"

\* the goal is the node that the next pop would take
GoalAtHead == open_set # <<>> /\ is_goal(nodes[open_set[1]].board, size)

\* C34: the deadline is tested at the top of an iteration, before the pop:
\* the step that finds the budget exceeded returns failure with the open set
\* and all that the search has recorded untouched, whichever node is at the
\* head of the open set, the goal included; what is returned on a timeout is
\* never a move list.
DeadlineBeforePop ==
    /\ [][DeadlineStep =>
            /\ open_set # <<>>
            /\ open_set' = open_set
            /\ nodes' = nodes
            /\ closed_set' = closed_set
            /\ best_g' = best_g
            /\ nodes_expanded' = nodes_expanded
            /\ spc' = "done"
            /\ sresult'.kind = "None"]_vars
    /\ []((spc = "done" /\ sresult.cause = "timeout") =>
            /\ sresult.kind = "None"
            /\ open_set # <<>>
            /\ nodes_expanded = Cardinality(closed_set))

\* the budget ran out after some expansions, with the goal next to be popped
GoalLeftUnpoppedWitness ==
    /\ spc = "done"
    /\ sresult.cause = "timeout"
    /\ GoalAtHead
    /\ nodes_expanded >= 2
    /\ initial_board # create_goal_board(size)

----------------------------------------------------------------------------
(* memento.py: PuzzleMemento and PuzzleCaretaker *)

\* most mementos on the undo stack
MaxHistory == 3

\* most writes of the caretaker's caller into its board
MaxEdits == 3

\* a memento whose _board is the list object that the caller passed
PuzzleMemento_keeping_reference(b, e, c) ==
    [board |-> b, empty_pos |-> e, move_count |-> c, own |-> FALSE]

\* PuzzleMemento.__init__, lines 40-42: _board is a deepcopy, a list object of
\* the memento's own (own), with the contents of the list that was passed
PuzzleMemento(b, e, c) ==
    [board |-> b, empty_pos |-> e, move_count |-> c, own |-> TRUE]

\* what m._board holds now: the memento's own list, or else the caller's list
\* with whatever the caller has written into it
stored_board(m) == IF m.own THEN m.board ELSE board

\* PuzzleMemento.get_state, line 51: a copy of the stored state
get_state(m) ==
    [kind |-> "state", board |-> stored_board(m), empty_pos |-> m.empty_pos,
     move_count |-> m.move_count]

\* a test that needs no state to be kept
can_undo_any(us) == Len(us) > 0

\* PuzzleCaretaker.can_undo, line 134
can_undo(us) == Len(us) > 1

\* PuzzleCaretaker.can_redo, line 143
can_redo(rs) == Len(rs) > 0

\* PuzzleCaretaker.get_undo_count, line 157
get_undo_count(us) == IF Len(us) - 1 > 0 THEN Len(us) - 1 ELSE 0

\* PuzzleCaretaker.get_redo_count, line 166
get_redo_count(rs) == Len(rs)

Caretaker(us, rs, r) == [undo_stack |-> us, redo_stack |-> rs, returned |-> r]

\* a save_state that keeps the redo stack
save_state_keeping_redo(us, rs, b, e, c) ==
    Caretaker(Append(us, PuzzleMemento(b, e, c)), rs, NoState)

\* PuzzleCaretaker.save_state, lines 82-85
save_state(us, rs, b, e, c) ==
    Caretaker(Append(us, PuzzleMemento(b, e, c)), <<>>, NoState)

\* PuzzleCaretaker.undo, lines 96-107
undo(us, rs) ==
    IF ~can_undo(us) THEN Caretaker(us, rs, NoState)
    ELSE LET current_memento == us[Len(us)]
             us1 == SubSeq(us, 1, Len(us) - 1)
             rs1 == Append(rs, current_memento)
         IN  IF us1 # <<>>
             THEN Caretaker(us1, rs1, get_state(us1[Len(us1)]))
             ELSE Caretaker(us1, rs1, NoState)

\* PuzzleCaretaker.redo, lines 118-125
redo(us, rs) ==
    IF ~can_redo(rs) THEN Caretaker(us, rs, NoState)
    ELSE LET memento == rs[Len(rs)]
         IN  Caretaker(Append(us, memento), SubSeq(rs, 1, Len(rs) - 1),
                       get_state(memento))

\* PuzzleCaretaker.clear, lines 147-148
clear(us, rs) == Caretaker(<<>>, <<>>, NoState)

\* A caretaker just constructed (lines 68-69), and a caller that holds a board
\* of its own, which it passes to save_state and writes into between the calls
CaretakerInit ==
    /\ size = 2
    /\ board \in PlayBoards(size)
    /\ empty_pos = find_blank(board, size)
    /\ move_count = 0
    /\ last_move_ok = TRUE
    /\ last_tile_pos = <<0, 0>>
    /\ initial_board = board
    /\ initial_empty_pos = empty_pos
    /\ NoHuman
    /\ NoSearch
    /\ FirstCall
    /\ NoGame

CaretakerUnchanged ==
    UNCHANGED <<humanVars, searchVars, callVars, ctrlVars, threadVars>>

\* the caller calls save_state with its board
SaveState ==
    /\ Len(undo_stack) < MaxHistory
    /\ LET r == save_state(undo_stack, redo_stack, board, empty_pos, move_count)
       IN  /\ undo_stack' = r.undo_stack
           /\ redo_stack' = r.redo_stack
    /\ last_call' = "save_state"
    /\ UNCHANGED <<puzzleVars, returned>>
    /\ CaretakerUnchanged

\* the caller calls undo
Undo ==
    /\ LET r == undo(undo_stack, redo_stack)
       IN  /\ undo_stack' = r.undo_stack
           /\ redo_stack' = r.redo_stack
           /\ returned' = r.returned
    /\ last_call' = "undo"
    /\ UNCHANGED puzzleVars
    /\ CaretakerUnchanged

\* the caller calls redo
Redo ==
    /\ LET r == redo(undo_stack, redo_stack)
       IN  /\ undo_stack' = r.undo_stack
           /\ redo_stack' = r.redo_stack
           /\ returned' = r.returned
    /\ last_call' = "redo"
    /\ UNCHANGED puzzleVars
    /\ CaretakerUnchanged

\* the caller calls clear
Clear ==
    /\ LET r == clear(undo_stack, redo_stack)
       IN  /\ undo_stack' = r.undo_stack
           /\ redo_stack' = r.redo_stack
    /\ last_call' = "clear"
    /\ UNCHANGED <<puzzleVars, returned>>
    /\ CaretakerUnchanged

\* the caller writes into its board, in place: a slide, as PuzzleModel.move
\* (lines 169-176) makes it
CallerWrites ==
    /\ move_count < MaxEdits
    /\ \E k \in DOMAIN get_possible_moves(empty_pos, size) :
          LET r == move(board, empty_pos, move_count, size,
                        get_possible_moves(empty_pos, size)[k])
          IN  /\ board' = r.board
              /\ empty_pos' = r.empty_pos
              /\ move_count' = r.move_count
              /\ last_move_ok' = r.ok
    /\ last_call' = "move"
    /\ UNCHANGED <<size, last_tile_pos, undo_stack, redo_stack, returned>>
    /\ CaretakerUnchanged

CaretakerNext == SaveState \/ Undo \/ Redo \/ Clear \/ CallerWrites

SpecCaretaker == CaretakerInit /\ [][CaretakerNext]_vars

\* C35: save_state puts the state it is given on top of the undo stack, above
\* the mementos that were there, and leaves the redo stack empty: after any
\* save_state can_redo() is False and get_redo_count() is 0, whatever calls
\* of undo and redo came before.
SaveStateEmptiesRedo ==
    /\ [](last_call = "save_state" =>
            /\ redo_stack = <<>>
            /\ ~can_redo(redo_stack)
            /\ get_redo_count(redo_stack) = 0
            /\ undo_stack # <<>>
            /\ get_state(undo_stack[Len(undo_stack)]).board = board
            /\ get_state(undo_stack[Len(undo_stack)]).empty_pos = empty_pos
            /\ get_state(undo_stack[Len(undo_stack)]).move_count = move_count)
    /\ [][last_call' = "save_state" =>
            /\ Len(undo_stack') = Len(undo_stack) + 1
            /\ SubSeq(undo_stack', 1, Len(undo_stack)) = undo_stack]_vars

\* a save_state that followed undos: the last undo returned the state that is
\* now below the new one, which is a later state of the caller's board
SaveAfterUndoWitness ==
    /\ last_call = "save_state"
    /\ Len(undo_stack) = 2
    /\ returned.kind = "state"
    /\ returned = get_state(undo_stack[1])
    /\ undo_stack[2].move_count = 2
    /\ undo_stack[1].move_count = 0

\* C36: the caretaker keeps the initial state: once a state is stored, no
\* call but clear() empties the undo stack or replaces its first memento;
\* undo() with a single stored state returns None and changes neither stack;
\* undo() with can_undo() true returns a state, the one below the top.
InitialStateIsKept ==
    /\ [][(undo_stack # <<>> /\ last_call' # "clear") =>
            /\ undo_stack' # <<>>
            /\ undo_stack'[1] = undo_stack[1]]_vars
    /\ [][(last_call' = "undo" /\ Len(undo_stack) = 1) =>
            /\ returned' = NoState
            /\ undo_stack' = undo_stack
            /\ redo_stack' = redo_stack]_vars
    /\ [][(last_call' = "undo" /\ can_undo(undo_stack)) =>
            /\ returned'.kind = "state"
            /\ returned' = get_state(undo_stack[Len(undo_stack) - 1])
            /\ Len(undo_stack') = Len(undo_stack) - 1]_vars

\* an undo was refused with the initial state alone on the undo stack, after
\* undos that were made
UndoRefusedWitness ==
    /\ last_call = "undo"
    /\ returned = NoState
    /\ Len(undo_stack) = 1
    /\ Len(redo_stack) = 2

\* the states that the mementos of a stack hold now
StoredStates(stack) == [k \in DOMAIN stack |-> get_state(stack[k])]

\* C37: undo and redo are inverse and conserve the history: after an undo
\* made with can_undo() true, redo() returns the state that was on top before
\* the undo and both stacks are as they were; no undo or redo changes
\* get_undo_count() + get_redo_count(); what the caller writes into its board
\* afterwards changes no stored state.
UndoRedoAreInverse ==
    /\ [][(last_call' = "undo" /\ can_undo(undo_stack)) =>
            LET r == redo(undo_stack', redo_stack')
            IN  /\ r.undo_stack = undo_stack
                /\ r.redo_stack = redo_stack
                /\ r.returned = get_state(undo_stack[Len(undo_stack)])]_vars
    /\ [][(last_call' = "redo" /\ can_redo(redo_stack)) =>
            LET r == undo(undo_stack', redo_stack')
            IN  /\ r.undo_stack = undo_stack
                /\ r.redo_stack = redo_stack]_vars
    /\ [][last_call' \in {"undo", "redo"} =>
            get_undo_count(undo_stack') + get_redo_count(redo_stack')
                = get_undo_count(undo_stack) + get_redo_count(redo_stack)]_vars
    /\ [][last_call' = "move" =>
            /\ StoredStates(undo_stack)' = StoredStates(undo_stack)
            /\ StoredStates(redo_stack)' = StoredStates(redo_stack)
            /\ returned' = returned]_vars

\* the caller wrote into its board after a redo that followed undos, with
\* states of other boards on both stacks
WriteAfterRedoWitness ==
    /\ last_call = "move"
    /\ move_count = 3
    /\ Len(undo_stack) = 2
    /\ Len(redo_stack) = 1
    /\ returned = get_state(undo_stack[2])
    /\ \A k \in DOMAIN undo_stack : undo_stack[k].board # board
    /\ redo_stack[1].move_count = 2

----------------------------------------------------------------------------
(* HumanPlayerController *)

\* Boards that generate_random_board (random.shuffle, lines 53-54) can leave
\* in the model: the goal board, the boards two slides or less from it, and
\* an unsolvable board
GameBoards(n) ==
    BoardsWithin({}, {create_goal_board(n)}, n, 2) \cup {SwappedGoal(n)}

\* most tile moves of a game
MaxClicks == 3

\* a set_board called without its third argument, which defaults to 0
set_board_default_count(b, e, c) ==
    [board |-> b, empty_pos |-> e, move_count |-> 0]

\* PuzzleModel.set_board, lines 200-202
set_board(b, e, c) == [board |-> b, empty_pos |-> e, move_count |-> c]

\* a test that looks at the board alone
redo_wins_again(solved, finished) == solved

\* handle_redo, line 280: the test that leads to handle_game_won
redo_wins(solved, finished) == solved /\ ~finished

ControllerUnchanged == UNCHANGED <<humanVars, searchVars, callVars, threadVars>>

\* new_game, lines 136-156, with the model holding a board of size n
StartGame(n) ==
    /\ size' = n
    /\ board' \in GameBoards(n)
    /\ empty_pos' = find_blank(board', n)
    /\ move_count' = 0
    /\ current_game_solvable' = is_solvable(board', empty_pos', n)
    /\ LET c == clear(undo_stack, redo_stack)
           r == save_state(c.undo_stack, c.redo_stack, board', empty_pos', 0)
       IN  /\ undo_stack' = r.undo_stack
           /\ redo_stack' = r.redo_stack
    /\ game_finished' = FALSE
    /\ solved_records' = 0
    /\ returned' = NoState
    /\ UNCHANGED <<last_move_ok, last_tile_pos>>
    /\ ControllerUnchanged

\* the controller as __init__ leaves it (lines 57-80): a model of size 3 and
\* the first game started
ControllerInit ==
    /\ size = 3
    /\ board \in GameBoards(size)
    /\ empty_pos = find_blank(board, size)
    /\ move_count = 0
    /\ last_move_ok = TRUE
    /\ last_tile_pos = <<0, 0>>
    /\ initial_board = board
    /\ initial_empty_pos = empty_pos
    /\ NoHuman
    /\ NoSearch
    /\ FirstCall
    /\ undo_stack = <<PuzzleMemento(board, empty_pos, 0)>>
    /\ redo_stack = <<>>
    /\ returned = NoState
    /\ last_call = "new_game"
    /\ current_game_solvable = is_solvable(board, empty_pos, size)
    /\ game_finished = FALSE
    /\ solved_records = 0
    /\ tpc = "none"
    /\ stop_solving = FALSE
    /\ solution = <<>>
    /\ move_i = 0
    /\ replaced = FALSE
    /\ join_size = 0

\* HumanPlayerController.new_game
NewGame ==
    /\ StartGame(size)
    /\ last_call' = "new_game"

\* HumanPlayerController.handle_size_change, lines 233-243: PuzzleModel.resize
\* and then new_game
HandleSizeChange ==
    /\ \E new_size \in PlaySizes :
          /\ new_size # size
          /\ StartGame(new_size)
    /\ last_call' = "handle_size_change"

\* HumanPlayerController.handle_tile_click with handle_game_won; nothing is
\* left of what an earlier handler got back from the caretaker
HandleTileClick ==
    /\ move_count < MaxClicks
    /\ last_call' = "handle_tile_click"
    /\ \E row \in Idx(size), col \in Idx(size) :
          IF game_finished \/ ~current_game_solvable
          THEN UNCHANGED <<puzzleVars, undo_stack, redo_stack, ctrlVars>>
          ELSE LET m == move(board, empty_pos, move_count, size, <<row, col>>)
                   r == save_state(undo_stack, redo_stack, m.board,
                                   m.empty_pos, m.move_count)
               IN  /\ board' = m.board
                   /\ empty_pos' = m.empty_pos
                   /\ move_count' = m.move_count
                   /\ last_move_ok' = m.ok
                   /\ IF m.ok
                      THEN /\ undo_stack' = r.undo_stack
                           /\ redo_stack' = r.redo_stack
                           /\ IF is_solved(m.board, size)
                              THEN /\ game_finished' = TRUE
                                   /\ solved_records' = solved_records + 1
                              ELSE UNCHANGED <<game_finished, solved_records>>
                      ELSE UNCHANGED <<undo_stack, redo_stack, game_finished,
                                       solved_records>>
                   /\ UNCHANGED <<size, last_tile_pos, current_game_solvable>>
    /\ returned' = NoState
    /\ ControllerUnchanged

\* lines 251-253 / 268-270: the state that the caretaker returned, if it
\* returned one, is given to PuzzleModel.set_board
Restore(r) ==
    IF r.returned.kind = "state"
    THEN LET s == set_board(r.returned.board, r.returned.empty_pos,
                            r.returned.move_count)
         IN  /\ board' = s.board
             /\ empty_pos' = s.empty_pos
             /\ move_count' = s.move_count
    ELSE UNCHANGED <<board, empty_pos, move_count>>

\* HumanPlayerController.handle_undo
HandleUndo ==
    /\ last_call' = "handle_undo"
    /\ IF ~current_game_solvable
       THEN UNCHANGED <<board, empty_pos, move_count, undo_stack, redo_stack, returned>>
       ELSE LET r == undo(undo_stack, redo_stack)
            IN  /\ undo_stack' = r.undo_stack
                /\ redo_stack' = r.redo_stack
                /\ returned' = r.returned
                /\ Restore(r)
    /\ UNCHANGED <<size, last_move_ok, last_tile_pos, ctrlVars>>
    /\ ControllerUnchanged

\* HumanPlayerController.handle_redo with handle_game_won
HandleRedo ==
    /\ last_call' = "handle_redo"
    /\ IF ~current_game_solvable
       THEN UNCHANGED <<board, empty_pos, move_count, undo_stack, redo_stack,
                        returned, game_finished, solved_records>>
       ELSE LET r == redo(undo_stack, redo_stack)
            IN  /\ undo_stack' = r.undo_stack
                /\ redo_stack' = r.redo_stack
                /\ returned' = r.returned
                /\ Restore(r)
                /\ IF /\ r.returned.kind = "state"
                      /\ redo_wins(is_solved(board', size), game_finished)
                   THEN /\ game_finished' = TRUE
                        /\ solved_records' = solved_records + 1
                   ELSE UNCHANGED <<game_finished, solved_records>>
    /\ UNCHANGED <<size, last_move_ok, last_tile_pos, current_game_solvable>>
    /\ ControllerUnchanged

ControllerNext ==
    \/ NewGame
    \/ HandleSizeChange
    \/ HandleTileClick
    \/ HandleUndo
    \/ HandleRedo

SpecController == ControllerInit /\ [][ControllerNext]_vars

\* C38: in the human-player controller, after any tile clicks, undos and
\* redos of a game, the model's move_count is the caretaker's
\* get_undo_count() and the model's board, blank and move count are those of
\* the snapshot on top of the undo stack.
ModelMatchesHistory ==
    /\ undo_stack # <<>>
    /\ move_count = get_undo_count(undo_stack)
    /\ board = get_state(undo_stack[Len(undo_stack)]).board
    /\ empty_pos = get_state(undo_stack[Len(undo_stack)]).empty_pos
    /\ move_count = get_state(undo_stack[Len(undo_stack)]).move_count

\* a game of three tile moves, two undos and a redo: two moves are on the
\* undo stack, the third is left to redo
ClicksUndosRedosWitness ==
    /\ last_call = "handle_redo"
    /\ returned.kind = "state"
    /\ move_count = 2
    /\ Len(redo_stack) = 1
    /\ redo_stack[1].move_count = 3
    /\ ~game_finished

\* C39: a game is recorded as solved at most once: between two new_game
\* calls handle_game_won / record_solved runs at most one time, whatever
\* tile clicks, undos and redos are made, and it runs on a solved board of a
\* game not yet finished; once the game is finished a tile click changes
\* neither the model nor the history.
SolvedRecordedOnce ==
    /\ [](solved_records <= 1)
    /\ [](game_finished <=> solved_records = 1)
    /\ [][solved_records' = solved_records + 1 =>
            /\ ~game_finished
            /\ is_solved(board', size)
            /\ last_call' \in {"handle_tile_click", "handle_redo"}]_vars
    /\ [][(game_finished /\ last_call' = "handle_tile_click") =>
            /\ board' = board
            /\ empty_pos' = empty_pos
            /\ move_count' = move_count
            /\ undo_stack' = undo_stack
            /\ redo_stack' = redo_stack
            /\ game_finished']_vars

\* the winning move was undone and then redone: the board is solved again
\* and the game has one record
RedoneWinWitness ==
    /\ last_call = "handle_redo"
    /\ returned.kind = "state"
    /\ is_solved(board, size)
    /\ game_finished
    /\ solved_records = 1
    /\ move_count = 2

----------------------------------------------------------------------------
(* ComputerPlayerController: the UI callbacks and the solving thread *)

\* longest move list that the solver hands to the thread
MaxSolution == 2

\* The move lists of d moves or less that lead from the board b, blank at e, to
\* the goal
RECURSIVE Solutions(_, _, _, _)
Solutions(b, e, n, d) ==
    (IF is_solved(b, n) THEN {<<>>} ELSE {})
    \cup (IF d = 0 THEN {}
          ELSE UNION {{<<t>> \o s : s \in Solutions(SlideBoard(b, e, t), t, n, d - 1)} :
                        t \in SeqToSet(get_possible_moves(e, n))})

\* the shortest of them, if the goal is MaxSolution moves away or less
ShortestSolutions(b, e, n) ==
    LET ds == {d \in 0 .. MaxSolution : Solutions(b, e, n, d) # {}}
    IN  IF ds = {} THEN {}
        ELSE Solutions(b, e, n, CHOOSE d \in ds : \A d2 \in ds : d <= d2)

\* What self.solver.solve can return to the thread (lines 209-216): None, or
\* a list of moves that solves the board it was given, the empty list when
\* the board is the goal
SolveOutcomes(b, e) ==
    {ReturnNone("timeout")}
    \cup {ReturnList(s) : s \in ShortestSolutions(b, e, Cardinality(DOMAIN b))}

\* threading.Thread.is_alive of self.solving_thread
is_alive == tpc \notin {"none", "ended"}

\* the Tk main loop is not inside a callback
MainIdle == join_size = 0

\* the controller as __init__ leaves it (lines 44-60)
ComputerInit ==
    /\ size = 3
    /\ board \in GameBoards(size)
    /\ empty_pos = find_blank(board, size)
    /\ move_count = 0
    /\ last_move_ok = TRUE
    /\ last_tile_pos = <<0, 0>>
    /\ initial_board = board
    /\ initial_empty_pos = empty_pos
    /\ NoHuman
    /\ NoSearch
    /\ FirstCall
    /\ NoGame

ComputerUnchanged == UNCHANGED <<humanVars, searchVars, callVars, careVars, ctrlVars>>

ThreadOnly ==
    /\ UNCHANGED <<stop_solving, replaced, join_size>>
    /\ UNCHANGED <<puzzle, pc, row_iteration, col_iteration, target_value,
                   iterations, slide_vertically, result>>
    /\ UNCHANGED <<searchVars, callVars, careVars, ctrlVars>>

\* PuzzleModel.generate_random_board on a model of size n
GenerateRandomBoard(n) ==
    /\ board' \in GameBoards(n)
    /\ empty_pos' = find_blank(board', n)
    /\ move_count' = 0

\* lines 162-165 / 195-198: the flag is lowered and a thread is started
StartThread ==
    /\ stop_solving' = FALSE
    /\ tpc' = "start"
    /\ replaced' = FALSE

\* ComputerPlayerController.new_game, lines 126-142
ComputerNewGame ==
    /\ MainIdle
    /\ IF is_alive
       THEN UNCHANGED <<board, empty_pos, move_count>>
       ELSE GenerateRandomBoard(size)
    /\ UNCHANGED <<size, last_move_ok, last_tile_pos, threadVars>>
    /\ ComputerUnchanged

\* ComputerPlayerController.solve_game, lines 150-165
SolveGame ==
    /\ MainIdle
    /\ IF is_alive \/ ~is_solvable(board, empty_pos, size)
       THEN UNCHANGED <<tpc, stop_solving, replaced>>
       ELSE StartThread
    /\ UNCHANGED <<puzzleVars, solution, move_i, join_size>>
    /\ ComputerUnchanged

\* ComputerPlayerController.new_game_and_solve, lines 174-198
NewGameAndSolve ==
    /\ MainIdle
    /\ IF is_alive
       THEN UNCHANGED <<board, empty_pos, move_count, tpc, stop_solving, replaced>>
       ELSE /\ GenerateRandomBoard(size)
            /\ IF ~is_solvable(board', empty_pos', size)
               THEN UNCHANGED <<tpc, stop_solving, replaced>>
               ELSE StartThread
    /\ UNCHANGED <<size, last_move_ok, last_tile_pos, solution, move_i, join_size>>
    /\ ComputerUnchanged

\* ComputerPlayerController.handle_size_change, lines 308-312: the flag is
\* raised and the main thread waits in join
SizeChangeJoins ==
    /\ MainIdle
    /\ \E new_size \in PlaySizes :
          /\ new_size # size
          /\ join_size' = new_size
    /\ stop_solving' = TRUE
    /\ UNCHANGED <<puzzleVars, tpc, solution, move_i, replaced>>
    /\ ComputerUnchanged

\* lines 312-316: join returns, because the thread has ended, or because there
\* is no thread, or because the second has passed, and the model is resized
SizeChangeResizes ==
    /\ ~MainIdle
    /\ size' = join_size
    /\ GenerateRandomBoard(join_size)
    /\ replaced' = TRUE
    /\ join_size' = 0
    /\ UNCHANGED <<last_move_ok, last_tile_pos, tpc, stop_solving, solution, move_i>>
    /\ ComputerUnchanged

\* _solve_puzzle_thread, lines 209-212: the solver is called on a copy of
\* the board
ThreadCallsSolve ==
    /\ tpc = "start"
    /\ initial_board' = board
    /\ initial_empty_pos' = empty_pos
    /\ tpc' = "solve"
    /\ UNCHANGED <<puzzleVars, solution, move_i>>
    /\ ThreadOnly

\* lines 216-233: the solver returns; on None the thread ends, on a list
\* _execute_solution begins
ThreadSolveReturns ==
    /\ tpc = "solve"
    /\ \E r \in SolveOutcomes(initial_board, initial_empty_pos) :
          IF r.kind = "None"
          THEN /\ tpc' = "ended"
               /\ UNCHANGED <<solution, move_i>>
          ELSE /\ tpc' = "check"
               /\ solution' = r.moves
               /\ move_i' = 0
    /\ UNCHANGED <<puzzleVars, initial_board, initial_empty_pos>>
    /\ ThreadOnly

\* lines 244-246, 263-268, 235: the loop ends when the list is used up or
\* when stop_solving is set, and then the thread ends
ThreadChecksStop ==
    /\ tpc = "check"
    /\ tpc' = IF move_i = Len(solution) \/ stop_solving THEN "ended" ELSE "move"
    /\ UNCHANGED <<puzzleVars, initial_board, initial_empty_pos, solution, move_i>>
    /\ ThreadOnly

\* lines 249-261: the move is made on the model, and after the sleep the
\* loop goes to its next move
ThreadMoves ==
    /\ tpc = "move"
    /\ LET m == move(board, empty_pos, move_count, size, solution[move_i + 1])
       IN  /\ board' = m.board
           /\ empty_pos' = m.empty_pos
           /\ move_count' = m.move_count
           /\ last_move_ok' = m.ok
    /\ move_i' = move_i + 1
    /\ tpc' = "check"
    /\ UNCHANGED <<size, last_tile_pos, initial_board, initial_empty_pos, solution>>
    /\ ThreadOnly

ComputerNext ==
    \/ ComputerNewGame
    \/ SolveGame
    \/ NewGameAndSolve
    \/ SizeChangeJoins
    \/ SizeChangeResizes
    \/ ThreadCallsSolve
    \/ ThreadSolveReturns
    \/ ThreadChecksStop
    \/ ThreadMoves

SpecComputer == ComputerInit /\ [][ComputerNext]_vars

\* the thread makes the move of line 249
ThreadMoveStep == tpc = "move" /\ tpc' = "check"

\* C40: in the computer-player controller a thread is started only when no
\* solving thread is alive, and once handle_size_change has replaced the
\* board no move of the solution that the thread holds changes the model,
\* under every interleaving of the thread with the UI callbacks.
OneThreadNoStaleMove ==
    /\ [][(tpc' = "start" /\ tpc # "start") => ~is_alive]_vars
    /\ [][(ThreadMoveStep /\ replaced) =>
            /\ board' = board
            /\ empty_pos' = empty_pos
            /\ move_count' = move_count]_vars

====
